---- MODULE Spec2Model ----
(***************************************************************************)
(* p-ratelimit: the QuotaManager (concurrency gate and sliding-window rate *)
(* counter), the pRateLimit dispatch queue built on it, and the            *)
(* RedisQuotaManager that divides one quota among a pool of peers.         *)
(*                                                                         *)
(* Time.  Every duration is in milliseconds, as in the source.  Date.now() *)
(* is not stored: a timestamp t is kept as its age, Date.now() - t, and a  *)
(* timer as the milliseconds left until it is due.  Tick lets TickMs       *)
(* milliseconds pass.  A timer that is due fires before more time passes   *)
(* (the event loop is not blocked); everything that happens between two    *)
(* Ticks happens at the same millisecond, in any order.                    *)
(***************************************************************************)
EXTENDS Integers, Sequences, FiniteSets, TLC

VARIABLES
  quota,        \* QuotaManager._quota: a record holding only the fields that are set
  activeCount,  \* QuotaManager._activeCount
  history,      \* QuotaManager.history: ages of the logged admissions, oldest first
  queue,        \* pRateLimit: queue, the run closures (by call id), front first
  timerId,      \* pRateLimit: the recheck timer of next()
  call,         \* per call given to the limiter: its closure state and its promise
  started,      \* observation: the call ids in the order their wrapped function was invoked
  admitted,     \* observation: ages of the start() calls that returned true, pruned by age alone
  outstanding,  \* QuotaManager driven directly: successful start() calls not yet ended
  lastStart,    \* QuotaManager driven directly: the last start() call, as its caller saw it
  channelQuota, \* RedisQuotaManager.channelQuota, the same for every coordinator of the pool
  heartbeatInterval, \* RedisQuotaManager.heartbeatInterval, the same for the pool
  rqm,          \* the RedisQuotaManagers of the pool, by coordinator
  channel,      \* the Redis pub/sub channel: per coordinator, its subscription and
                \* the messages published and not yet given to its message handler
  peerPings,    \* messages published so far from outside the coordinators of the model
  dequeue,      \* a Dequeue: _length, head, tail and the nodes allocated so far
  reference,    \* the values a sequence holds after the same operations
  returned,     \* the last operation on the Dequeue and what it returned
  made,         \* the argument given to new QuotaManager() and what came of it
  api           \* the MockApi of the tests and the test's clock: how long each of its
                \* functions sleeps, what is left of each sleep, the time since the
                \* calls were given to the limiter and when each function was invoked

limiterVars == <<quota, activeCount, history, queue, timerId, call, started, admitted,
                 outstanding, lastStart>>

poolVars == <<channelQuota, heartbeatInterval, rqm, channel, peerPings>>

dequeueVars == <<dequeue, reference, returned>>

vars == <<limiterVars, poolVars, dequeueVars, made, api>>

----------------------------------------------------------------------------
\* Bounds of the model.

\* Number of calls given to one limiter.
MaxCalls == 3

\* Milliseconds that pass in one Tick.
TickMs == 50

\* start() calls the direct driver of a QuotaManager leaves unended.
MaxActive == 3

\* Delay of the recheck timer of next(), in ms.
RecheckMs == 100

\* Coordinators in one pool.
MaxPeers == 2

\* Milliseconds that pass in one PoolTick.
PoolTickMs == 1000

\* Messages that may wait in one coordinator's connection while time passes.
MaxInFlight == 1

\* Nodes a Dequeue allocates (calls of push and unshift), and the values pushed.
MaxNodes == 4

MaxValue == 2

Values == 1..MaxValue

\* Pings published by the coordinators of which only the pings are kept.
MaxPeerPings == 1

\* Jobs a test gives to a limiter at once, and the time the test is followed, in ms.
MaxJobs == 5

MaxElapsed == 3000

\* Calls given to a limiter that is built on a coordinator of a pool.
MaxCoordCalls == 2

\* The discovery window of register(), sleep(3000), in ms.
DiscoveryMs == 3000

\* The default of the constructor's heartbeatInterval, in ms.
DefaultHeartbeatInterval == 30000

Calls == 1..MaxCalls

Peers == 1..MaxPeers

----------------------------------------------------------------------------
\* Quota (interface Quota): every field is optional; an unset field is absent
\* from the record.

Has(q, f) == f \in DOMAIN q

NoFields == <<>>

RateParts ==
  {NoFields} \cup {[interval |-> 100, rate |-> r] : r \in {0, 1, 2}}

ConcurrencyParts == {NoFields} \cup {[concurrency |-> n] : n \in {0, 1, 2}}

MaxDelayParts == {NoFields, [maxDelay |-> 0], [maxDelay |-> 100]}

\* The quotas a QuotaManager is constructed with (the constructor throws unless
\* interval and rate are both set or both unset).
Quotas == {r @@ c @@ d : r \in RateParts, c \in ConcurrencyParts, d \in MaxDelayParts}

\* get maxDelay() { return this._quota.maxDelay || 0; }
maxDelay(q) == IF Has(q, "maxDelay") THEN q.maxDelay ELSE 0

----------------------------------------------------------------------------
\* Time.

\* The age of a timestamp after one Tick.  An age beyond the interval is kept
\* as interval + 1: start() treats every such entry alike.
Older(a, interval) == IF a + TickMs > interval THEN interval + 1 ELSE a + TickMs

\* What is left of a timer after one Tick (0: due).
Later(left) == IF left > TickMs THEN left - TickMs ELSE 0

NoTimer == [armed |-> FALSE, left |-> 0]

Timer(ms) == [armed |-> TRUE, left |-> ms]

Due(t) == t.armed /\ t.left = 0

----------------------------------------------------------------------------
\* Dequeue.  A Dequeue is a record d: _length, head, tail, and the nodes
\* allocated so far, node i being nodes[i] with value, prev and next; null is
\* 0.  An operation gives the Dequeue after it and what it returned; reading a
\* property of null raises a TypeError, which ends the method there.

null == 0

undefined == [kind |-> "undefined", value |-> 0]

TypeError == [kind |-> "TypeError", value |-> 0]

Value(v) == [kind |-> "value", value |-> v]

\* new Dequeue()
NewDequeue == [_length |-> 0, head |-> null, tail |-> null, nodes |-> <<>>]

clear(d) ==
  [d |-> [d EXCEPT !.head = null, !.tail = null, !._length = 0], ret |-> undefined]

\* An unshift() that leaves head.prev as it is.
unshift_noPrevLink(d, v) ==
  LET newNode == Len(d.nodes) + 1
      alloc   == [d EXCEPT !.nodes = Append(@, [value |-> v, prev |-> null, next |-> d.head])]
  IN  [d   |-> IF d._length # 0
                 THEN [alloc EXCEPT !.head = newNode, !._length = @ + 1]
                 ELSE [alloc EXCEPT !.head = newNode, !.tail = newNode, !._length = @ + 1],
       ret |-> undefined]

push(d, v) ==
  LET newNode == Len(d.nodes) + 1
      alloc   == [d EXCEPT !.nodes = Append(@, [value |-> v, prev |-> d.tail, next |-> null])]
  IN  [d   |-> IF d._length # 0
                 THEN [alloc EXCEPT !.nodes[d.tail].next = newNode,
                                   !.tail = newNode, !._length = @ + 1]
                 ELSE [alloc EXCEPT !.head = newNode, !.tail = newNode, !._length = @ + 1],
       ret |-> undefined]

pop(d) ==
  IF d.tail = null
    THEN [d |-> d, ret |-> TypeError]
    ELSE LET result  == d.tail
             length  == d._length - 1
             shorter == [d EXCEPT !.tail = d.nodes[d.tail].prev, !._length = length]
         IN  [d   |-> IF length = 0 THEN [shorter EXCEPT !.head = null, !.tail = null]
                                    ELSE shorter,
              ret |-> Value(d.nodes[result].value)]

unshift(d, v) ==
  LET newNode == Len(d.nodes) + 1
      alloc   == [d EXCEPT !.nodes = Append(@, [value |-> v, prev |-> null, next |-> d.head])]
  IN  [d   |-> IF d._length # 0
                 THEN [alloc EXCEPT !.nodes[d.head].prev = newNode,
                                   !.head = newNode, !._length = @ + 1]
                 ELSE [alloc EXCEPT !.head = newNode, !.tail = newNode, !._length = @ + 1],
       ret |-> undefined]

shift(d) ==
  IF d.head = null
    THEN [d |-> d, ret |-> TypeError]
    ELSE LET result  == d.head
             length  == d._length - 1
             shorter == [d EXCEPT !.head = d.nodes[d.head].next, !._length = length]
         IN  [d   |-> IF length = 0 THEN [shorter EXCEPT !.head = null, !.tail = null]
                                    ELSE shorter,
              ret |-> Value(d.nodes[result].value)]

peekFront(d) ==
  [d |-> d, ret |-> IF d._length # 0 THEN Value(d.nodes[d.head].value) ELSE undefined]

peekBack(d) ==
  [d |-> d, ret |-> IF d._length # 0 THEN Value(d.nodes[d.tail].value) ELSE undefined]

----------------------------------------------------------------------------
\* QuotaManager.  The operators work on a record s holding the limiter's and
\* the manager's state (the fields are the variables of the same name).

\* A constructor that tests only for interval without rate.
newQuotaManager_halfTest(arg) ==
  LET _quota == IF arg.typeof # "object" THEN NoFields ELSE arg.quota IN
  IF Has(_quota, "interval") /\ ~Has(_quota, "rate")
    THEN [result |-> "Invalid Quota", quota |-> NoFields]
    ELSE [result |-> "manager", quota |-> _quota]

\* new QuotaManager(arg): the manager with its _quota, or the Error thrown.  A
\* property is `in` the quota when the record has the field, whatever its value.
newQuotaManager(arg) ==
  LET _quota == IF arg.typeof # "object" THEN NoFields ELSE arg.quota IN
  IF \/ Has(_quota, "interval") /\ ~Has(_quota, "rate")
     \/ Has(_quota, "rate") /\ ~Has(_quota, "interval")
    THEN [result |-> "Invalid Quota", quota |-> NoFields]
    ELSE [result |-> "manager", quota |-> _quota]

\* A removeExpiredHistory() with an if for the while: it shifts one entry at most.
removeExpiredHistory_shiftsOnce(h, interval) ==
  IF Len(h) > 0 /\ Head(h) > interval THEN Tail(h) ELSE h

\* A removeExpiredHistory() that also drops the entry whose age is exactly the interval.
RECURSIVE removeExpiredHistory_dropsBoundary(_, _)
removeExpiredHistory_dropsBoundary(h, interval) ==
  IF Len(h) > 0 /\ Head(h) >= interval
    THEN removeExpiredHistory_dropsBoundary(Tail(h), interval)
    ELSE h

\* removeExpiredHistory(): expired = Date.now() - interval; shift while the
\* front entry is < expired, that is while its age is > interval.
RECURSIVE removeExpiredHistory(_, _)
removeExpiredHistory(h, interval) ==
  IF Len(h) > 0 /\ Head(h) > interval
    THEN removeExpiredHistory(Tail(h), interval)
    ELSE h

\* A start() that logs the timestamp before it tests the rate.
start_logsBeforeTest(s) ==
  IF Has(s.quota, "concurrency") /\ s.activeCount >= s.quota.concurrency
    THEN [ok |-> FALSE, s |-> s]
    ELSE IF Has(s.quota, "interval") /\ Has(s.quota, "rate")
      THEN LET h == Append(removeExpiredHistory(s.history, s.quota.interval), 0) IN
           IF Len(h) > s.quota.rate
             THEN [ok |-> FALSE, s |-> [s EXCEPT !.history = h]]
             ELSE [ok |-> TRUE,
                   s  |-> [s EXCEPT !.history = h,
                                    !.admitted = Append(@, 0),
                                    !.activeCount = @ + 1]]
      ELSE [ok |-> TRUE, s |-> [s EXCEPT !.activeCount = @ + 1]]

\* A start() that takes an unset concurrency for 0.
start_unsetIsZero(s) ==
  IF s.activeCount >= (IF Has(s.quota, "concurrency") THEN s.quota.concurrency ELSE 0)
    THEN [ok |-> FALSE, s |-> s]
    ELSE IF Has(s.quota, "interval") /\ Has(s.quota, "rate")
      THEN LET h == removeExpiredHistory(s.history, s.quota.interval) IN
           IF Len(h) >= s.quota.rate
             THEN [ok |-> FALSE, s |-> [s EXCEPT !.history = h]]
             ELSE [ok |-> TRUE,
                   s  |-> [s EXCEPT !.history = Append(h, 0),
                                    !.admitted = Append(@, 0),
                                    !.activeCount = @ + 1]]
      ELSE [ok |-> TRUE, s |-> [s EXCEPT !.activeCount = @ + 1]]

\* A start() whose concurrency test is > instead of >=.
start_offByOne(s) ==
  IF Has(s.quota, "concurrency") /\ s.activeCount > s.quota.concurrency
    THEN [ok |-> FALSE, s |-> s]
    ELSE IF Has(s.quota, "interval") /\ Has(s.quota, "rate")
      THEN LET h == removeExpiredHistory(s.history, s.quota.interval) IN
           IF Len(h) >= s.quota.rate
             THEN [ok |-> FALSE, s |-> [s EXCEPT !.history = h]]
             ELSE [ok |-> TRUE,
                   s  |-> [s EXCEPT !.history = Append(h, 0),
                                    !.admitted = Append(@, 0),
                                    !.activeCount = @ + 1]]
      ELSE [ok |-> TRUE, s |-> [s EXCEPT !.activeCount = @ + 1]]

\* start(): [ok |-> what it returns, s |-> the state it leaves].
start(s) ==
  IF Has(s.quota, "concurrency") /\ s.activeCount >= s.quota.concurrency
    THEN [ok |-> FALSE, s |-> s]
    ELSE IF Has(s.quota, "interval") /\ Has(s.quota, "rate")
      THEN LET h == removeExpiredHistory(s.history, s.quota.interval) IN
           IF Len(h) >= s.quota.rate
             THEN [ok |-> FALSE, s |-> [s EXCEPT !.history = h]]
             ELSE [ok |-> TRUE,
                   s  |-> [s EXCEPT !.history = Append(h, 0),
                                    !.admitted = Append(@, 0),
                                    !.activeCount = @ + 1]]
      ELSE [ok |-> TRUE, s |-> [s EXCEPT !.activeCount = @ + 1]]

\* end()
end(s) == [s EXCEPT !.activeCount = @ - 1]

----------------------------------------------------------------------------
\* pRateLimit.

Pending == [kind |-> "pending", of |-> 0]

TimeoutError == [kind |-> "RateLimitTimeoutError", of |-> 0]

\* A call not yet given to the limiter.
NoCall ==
  [st       |-> "idle",     \* idle, queued (run is in the queue), running, done, skipped
   timer    |-> "null",     \* the closure's timerId: null, armed, cleared
   left     |-> 0,          \* ms until the maxDelay timer is due
   invoked  |-> 0,          \* times fn() was called
   fnOut    |-> Pending,    \* what fn's promise settled with
   result   |-> Pending,    \* what the limiter's promise settled with
   settles  |-> 0,          \* calls of resolve or reject
   timedOut |-> FALSE,      \* the maxDelay timer fired
   waited   |-> 0]          \* ms since the call was given to the limiter, while not started

\* resolve(v) / reject(v) on a promise: the first call settles it.
Settle(p, v) == IF p.kind = "pending" THEN v ELSE p

\* A run() without the test for a timeout that already fired.
run_ignoresTimeout(s, c) ==
  [s EXCEPT !.call[c].st = "running",
            !.call[c].timer = IF maxDelay(s.quota) # 0 /\ @ = "armed" THEN "cleared" ELSE @,
            !.call[c].invoked = @ + 1,
            !.started = Append(@, c)]

\* A run() that does not clear the maxDelay timer.
run_keepsTimer(s, c) ==
  LET k == s.call[c] IN
  IF maxDelay(s.quota) # 0 /\ k.timer = "null"
    THEN [s EXCEPT !.call[c].st = "skipped"]
    ELSE [s EXCEPT !.call[c].st = "running",
                   !.call[c].invoked = @ + 1,
                   !.started = Append(@, c)]

\* run(), lines 40-50: the closure at the front of the queue has been shifted
\* and is called.
run(s, c) ==
  LET k == s.call[c] IN
  IF maxDelay(s.quota) # 0 /\ k.timer = "null"
    THEN \* timeout already fired
         [s EXCEPT !.call[c].st = "skipped"]
    ELSE [s EXCEPT !.call[c].st = "running",
                   !.call[c].timer = IF maxDelay(s.quota) # 0 THEN "cleared" ELSE @,
                   !.call[c].invoked = @ + 1,
                   !.started = Append(@, c)]

\* The while loop of next(): while (queue.length && quotaManager.start()) queue.shift()();
RECURSIVE drain(_)
drain(s) ==
  IF Len(s.queue) = 0
    THEN s
    ELSE LET r == start(s) IN
         IF r.ok
           THEN drain(run([r.s EXCEPT !.queue = Tail(@)], Head(s.queue)))
           ELSE r.s

\* A next() whose recheck timer is set for 300 ms.
next_recheckLate(s) ==
  LET d == drain(s) IN
  IF Len(d.queue) > 0 /\ d.activeCount = 0 /\ ~d.timerId.armed
    THEN [d EXCEPT !.timerId = Timer(3 * RecheckMs)]
    ELSE d

\* A next() without the test of timerId: it sets a timer over the one pending.
next_rearms(s) ==
  LET d == drain(s) IN
  IF Len(d.queue) > 0 /\ d.activeCount = 0
    THEN [d EXCEPT !.timerId = Timer(RecheckMs)]
    ELSE d

\* A next() that never sets the recheck timer.
next_noRecheck(s) == drain(s)

\* next()
next(s) ==
  LET d == drain(s) IN
  IF Len(d.queue) > 0 /\ d.activeCount = 0 /\ ~d.timerId.armed
    THEN [d EXCEPT !.timerId = Timer(RecheckMs)]
    ELSE d

\* A limiter that puts the new call at the front of the queue (unshift for push).
schedule_unshift(s, c) ==
  next([s EXCEPT !.call[c].st = "queued",
                 !.call[c].timer = IF maxDelay(s.quota) # 0 THEN "armed" ELSE "null",
                 !.call[c].left = maxDelay(s.quota),
                 !.queue = <<c>> \o @])

\* A limiter that arms the maxDelay timer whatever maxDelay is.
schedule_alwaysArmsTimer(s, c) ==
  next([s EXCEPT !.call[c].st = "queued",
                 !.call[c].timer = "armed",
                 !.call[c].left = maxDelay(s.quota),
                 !.queue = Append(@, c)])

\* The function pRateLimit returns, called with fn: the executor of the new promise.
schedule(s, c) ==
  next([s EXCEPT !.call[c].st = "queued",
                 !.call[c].timer = IF maxDelay(s.quota) # 0 THEN "armed" ELSE "null",
                 !.call[c].left = maxDelay(s.quota),
                 !.queue = Append(@, c)])

\* The callback of the maxDelay timer.
maxDelayFired(s, c) ==
  next([s EXCEPT !.call[c].timer = "null",
                 !.call[c].timedOut = TRUE,
                 !.call[c].settles = @ + 1,
                 !.call[c].result = Settle(@, TimeoutError)])

\* A run() whose chain ends with end() alone, without next().
settled_noDrain(s, c, o) ==
  end([s EXCEPT !.call[c].st = "done",
                !.call[c].fnOut = o,
                !.call[c].settles = @ + 1,
                !.call[c].result = Settle(@, o)])

\* A run() whose chain ends with the catch: then(end, next, resolve).catch(reject).
settled_rejectionKeepsSlot(s, c, o) ==
  LET t == [s EXCEPT !.call[c].st = "done",
                     !.call[c].fnOut = o,
                     !.call[c].settles = @ + 1,
                     !.call[c].result = Settle(@, o)]
  IN  IF o.kind = "rejected" THEN t ELSE next(end(t))

\* A run() whose chain has no catch: the promise is resolved whatever fn's promise did.
settled_swallowsRejection(s, c, o) ==
  next(end([s EXCEPT !.call[c].st = "done",
                     !.call[c].fnOut = o,
                     !.call[c].settles = @ + 1,
                     !.call[c].result = Settle(@, [kind |-> "fulfilled", of |-> c])]))

\* fn's promise settles with outcome o: the then / catch / then chain of run().
settled(s, c, o) ==
  next(end([s EXCEPT !.call[c].st = "done",
                     !.call[c].fnOut = o,
                     !.call[c].settles = @ + 1,
                     !.call[c].result = Settle(@, o)]))

\* The callback of the recheck timer.
recheckFired(s) == next([s EXCEPT !.timerId = NoTimer])

----------------------------------------------------------------------------
\* RedisQuotaManager.  The operators work on a record p holding the pool's
\* state (the fields are the variables of the same name); k is the coordinator
\* acting, which stands for its uniqueId.

\* Math.floor(undefined / n)
NaN == "NaN"

fastStart(q) == Has(q, "fastStart") /\ q.fastStart

\* The nominal quotas given to the pool, with and without fastStart.
ChannelQuotas ==
  {q @@ f : q \in {[interval |-> 500, rate |-> 5, concurrency |-> 3, maxDelay |-> 100],
                   [interval |-> 500, rate |-> 5],
                   [interval |-> 500, rate |-> 5, concurrency |-> 0],
                   [concurrency |-> 1]},
            f \in {NoFields, [fastStart |-> TRUE]}}

\* The heartbeat intervals given to the pool, in ms.  The default, 30000, is not
\* among them: like 2000 it makes the expiry window, 3 x the interval, longer
\* than the discovery window plus one interval.
HeartbeatIntervals == {1000, 2000}

\* A coordinator that has not been constructed.
NoManager ==
  [at             |-> "none",   \* where register() is: none, subscribe, sleep, done
   quota          |-> NoFields, \* _quota
   ready          |-> FALSE,    \* _ready
   pingsReceived  |-> <<>>,     \* uniqueId -> age of the last ping received from it
   sleepLeft      |-> 0,        \* ms left of sleep(3000)
   heartbeatTimer |-> NoTimer,
   activeCount    |-> 0,        \* _activeCount (of QuotaManager)
   history        |-> <<>>]     \* history (of QuotaManager)

\* A connection the Redis server has no subscription for.
NoConnection == [subscribed |-> FALSE, inbox |-> <<>>]

\* A constructor that passes the channelQuota on unchanged.
construct_fullQuota(p, k) ==
  [p EXCEPT !.rqm[k] =
     [at             |-> "subscribe",
      quota          |-> p.channelQuota,
      ready          |-> fastStart(p.channelQuota),
      pingsReceived  |-> (k :> 0),
      sleepLeft      |-> 0,
      heartbeatTimer |-> NoTimer,
      activeCount    |-> 0,
      history        |-> <<>>]]

\* A constructor that starts with concurrency 0 whatever fastStart says.
construct_ignoresFastStart(p, k) ==
  [p EXCEPT !.rqm[k] =
     [at             |-> "subscribe",
      quota          |-> [concurrency |-> 0] @@ p.channelQuota,
      ready          |-> FALSE,
      pingsReceived  |-> (k :> 0),
      sleepLeft      |-> 0,
      heartbeatTimer |-> NoTimer,
      activeCount    |-> 0,
      history        |-> <<>>]]

\* The constructor, and register() up to its first await.
construct(p, k) ==
  LET q == p.channelQuota IN
  [p EXCEPT !.rqm[k] =
     [at             |-> "subscribe",
      quota          |-> IF fastStart(q) THEN q ELSE [concurrency |-> 0] @@ q,
      ready          |-> fastStart(q),
      pingsReceived  |-> (k :> 0),
      sleepLeft      |-> 0,
      heartbeatTimer |-> NoTimer,
      activeCount    |-> 0,
      history        |-> <<>>]]

\* ping(): the server sends the uniqueId to every connection subscribed to the channel.
ping(p, k) ==
  [p EXCEPT !.channel =
     [j \in Peers |->
        IF p.channel[j].subscribed
          THEN [p.channel[j] EXCEPT !.inbox = Append(@, k)]
          ELSE p.channel[j]]]

\* A removeOutdatedClients() with a window of 2 x heartbeatInterval.
removeOutdatedClients_twoPeriods(pings, interval) ==
  [u \in {v \in DOMAIN pings : pings[v] < 2 * interval} |-> pings[u]]

\* removeOutdatedClients(): ancient = Date.now() - heartbeatInterval * 3; the
\* records with v <= ancient, that is of age >= 3 x heartbeatInterval, are deleted.
removeOutdatedClients(pings, interval) ==
  [u \in {v \in DOMAIN pings : pings[v] < 3 * interval} |-> pings[u]]

\* updateQuota() without the return on an empty pingsReceived: the channelQuota
\* is taken undivided.
updateQuota_noSkip(p, k) ==
  [p EXCEPT !.rqm[k].pingsReceived = removeOutdatedClients(@, p.heartbeatInterval),
            !.rqm[k].quota =
               IF DOMAIN removeOutdatedClients(p.rqm[k].pingsReceived, p.heartbeatInterval) = {}
                 THEN p.channelQuota
                 ELSE LET size == Cardinality(DOMAIN removeOutdatedClients(
                                       p.rqm[k].pingsReceived, p.heartbeatInterval))
                          q == p.channelQuota
                          withRate == [rate |-> IF Has(q, "rate") THEN q.rate \div size ELSE NaN] @@ q
                      IN  IF Has(q, "concurrency") /\ q.concurrency # 0
                            THEN [concurrency |-> q.concurrency \div size] @@ withRate
                            ELSE withRate]

\* updateQuota()
updateQuota(p, k) ==
  LET pings    == removeOutdatedClients(p.rqm[k].pingsReceived, p.heartbeatInterval)
      size     == Cardinality(DOMAIN pings)
      q        == p.channelQuota
      withRate == [rate |-> IF Has(q, "rate") THEN q.rate \div size ELSE NaN] @@ q
      newQuota == IF Has(q, "concurrency") /\ q.concurrency # 0
                    THEN [concurrency |-> q.concurrency \div size] @@ withRate
                    ELSE withRate
  IN  IF size = 0
        THEN [p EXCEPT !.rqm[k].pingsReceived = pings]
        ELSE [p EXCEPT !.rqm[k].pingsReceived = pings, !.rqm[k].quota = newQuota]

\* The subscribe of register() has completed: the rest of register() up to sleep(3000),
\* or to its end with fastStart.
subscribed(p, k) ==
  LET pinged == ping(p, k) IN
  IF fastStart(p.channelQuota)
    THEN [updateQuota(pinged, k) EXCEPT
            !.rqm[k].ready = TRUE,
            !.rqm[k].at = "done",
            !.rqm[k].heartbeatTimer = Timer(p.heartbeatInterval)]
    ELSE [pinged EXCEPT !.rqm[k].at = "sleep", !.rqm[k].sleepLeft = DiscoveryMs]

\* A register() that sets _ready after the sleep without calling updateQuota().
slept_readyOnly(p, k) ==
  [p EXCEPT
     !.rqm[k].ready = TRUE,
     !.rqm[k].at = "done",
     !.rqm[k].heartbeatTimer = Timer(p.heartbeatInterval)]

\* sleep(3000) is over: the rest of register().
slept(p, k) ==
  [updateQuota(p, k) EXCEPT
     !.rqm[k].ready = TRUE,
     !.rqm[k].at = "done",
     !.rqm[k].heartbeatTimer = Timer(p.heartbeatInterval)]

\* A payload that is not JSON text: JSON.parse throws on it.
NotJSON == 0

\* A payload that is JSON text of something no coordinator publishes: a number,
\* null, an object (the {command, value} of another revision).
NotAnId == -1

Malformed == {NotJSON, NotAnId}

\* A message() without the test of ready: a new client always has the quota updated.
message_updatesBeforeReady(p, k) ==
  LET payload   == Head(p.channel[k].inbox)
      uniqueId  == payload
      newClient == uniqueId \notin DOMAIN p.rqm[k].pingsReceived
      set       == [p EXCEPT !.channel[k].inbox = Tail(@),
                             !.rqm[k].pingsReceived = (uniqueId :> 0) @@ @]
  IN  IF payload = NotJSON
        THEN [p EXCEPT !.channel[k].inbox = Tail(@)]
        ELSE IF newClient THEN updateQuota(ping(set, k), k) ELSE set

\* message(), called with the message at the front of the connection (the
\* connection is subscribed to channelName alone).  JSON.parse throws on a
\* payload that is not JSON, and message() returns; whatever else it parses to
\* is the uniqueId.
message(p, k) ==
  LET payload   == Head(p.channel[k].inbox)
      uniqueId  == payload
      newClient == uniqueId \notin DOMAIN p.rqm[k].pingsReceived
      set       == [p EXCEPT !.channel[k].inbox = Tail(@),
                             !.rqm[k].pingsReceived = (uniqueId :> 0) @@ @]
  IN  IF payload = NotJSON
        THEN [p EXCEPT !.channel[k].inbox = Tail(@)]
        ELSE IF newClient
          THEN IF set.rqm[k].ready THEN updateQuota(ping(set, k), k) ELSE ping(set, k)
          ELSE set

\* A heartbeat() that only pings.
heartbeat_pingOnly(p, k) ==
  [ping(p, k) EXCEPT !.rqm[k].heartbeatTimer = Timer(p.heartbeatInterval)]

\* heartbeat(), called by setInterval.
heartbeat(p, k) ==
  LET pinged == [ping(p, k) EXCEPT !.rqm[k].heartbeatTimer = Timer(p.heartbeatInterval)] IN
  IF pinged.rqm[k].ready THEN updateQuota(pinged, k) ELSE pinged

----------------------------------------------------------------------------
\* The state as one record, and back.

Cur ==
  [quota |-> quota, activeCount |-> activeCount, history |-> history,
   queue |-> queue, timerId |-> timerId, call |-> call, started |-> started,
   admitted |-> admitted]

\* The next state is the record s (bound once, as a value).
Becomes(s) ==
  \E t \in {s} :
  /\ quota' = t.quota
  /\ activeCount' = t.activeCount
  /\ history' = t.history
  /\ queue' = t.queue
  /\ timerId' = t.timerId
  /\ call' = t.call
  /\ started' = t.started
  /\ admitted' = t.admitted

\* The entries of the admission log still inside the window that ends now.
InWindow(log, q) ==
  IF Has(q, "interval") THEN SelectSeq(log, LAMBDA a : a <= q.interval) ELSE log

AgeAll(log, q) ==
  IF Has(q, "interval") THEN [i \in DOMAIN log |-> Older(log[i], q.interval)] ELSE log

AnyDue == Due(timerId) \/ \E c \in Calls : call[c].timer = "armed" /\ call[c].left = 0

\* TickMs milliseconds pass.
Tick ==
  /\ ~AnyDue
  /\ history' = AgeAll(history, quota)
  /\ admitted' = InWindow(AgeAll(admitted, quota), quota)
  /\ timerId' = IF timerId.armed THEN Timer(Later(timerId.left)) ELSE timerId
  /\ call' = [c \in Calls |->
               [call[c] EXCEPT
                  !.left = IF call[c].timer = "armed" THEN Later(@) ELSE @,
                  !.waited = IF call[c].st = "queued" /\ @ < maxDelay(quota) + 2 * TickMs
                               THEN @ + TickMs ELSE @]]
  /\ UNCHANGED <<quota, activeCount, queue, started, outstanding, lastStart, poolVars, dequeueVars, made, api>>

----------------------------------------------------------------------------
\* A limiter, pRateLimit(quota), and its callers.

\* No method of the Dequeue has been called.
NothingReturned == [op |-> "none", wasEmpty |-> TRUE, ret |-> undefined, expected |-> undefined]

\* No MockApi is used.
NoApi == [waitTime |-> 0, sleeping |-> <<>>, startedAt |-> <<>>, elapsed |-> 0]

\* No call has been given to the limiter, and no start() was called.
NothingCalled ==
  /\ activeCount = 0
  /\ history = <<>>
  /\ queue = <<>>
  /\ timerId = NoTimer
  /\ call = [c \in Calls |-> NoCall]
  /\ started = <<>>
  /\ admitted = <<>>
  /\ outstanding = 0
  /\ lastStart = [called |-> FALSE, ok |-> FALSE, activeBefore |-> 0, lengthBefore |-> 0]
  /\ dequeue = NewDequeue
  /\ reference = <<>>
  /\ returned = NothingReturned
  /\ api = NoApi

\* The QuotaManager was constructed from the quota.
Made == made = [arg |-> [typeof |-> "object", quota |-> quota], result |-> "manager"]

\* No RedisQuotaManager has been constructed.
NoPool ==
  /\ rqm = [k \in Peers |-> NoManager]
  /\ channel = [k \in Peers |-> NoConnection]
  /\ peerPings = 0

Init ==
  /\ quota \in Quotas
  /\ NothingCalled
  /\ Made
  /\ channelQuota = NoFields
  /\ heartbeatInterval = DefaultHeartbeatInterval
  /\ NoPool

\* A caller gives the next call to the limiter.
Schedule ==
  /\ \E c \in Calls :
       /\ call[c].st = "idle"
       /\ \A b \in Calls : b < c => call[b].st # "idle"
       /\ Becomes(schedule(Cur, c))
  /\ UNCHANGED <<outstanding, lastStart, poolVars, dequeueVars, made, api>>

\* The maxDelay timer of a call fires.
MaxDelayFire ==
  /\ \E c \in Calls :
       /\ call[c].timer = "armed"
       /\ call[c].left = 0
       /\ Becomes(maxDelayFired(Cur, c))
  /\ UNCHANGED <<outstanding, lastStart, poolVars, dequeueVars, made, api>>

\* The promise of the running wrapped function of call c fulfils or rejects.
CompleteCall(c) ==
  /\ call[c].st = "running"
  /\ \E kind \in {"fulfilled", "rejected"} :
       Becomes(settled(Cur, c, [kind |-> kind, of |-> c]))
  /\ UNCHANGED <<outstanding, lastStart, poolVars, dequeueVars, made, api>>

Complete == \E c \in Calls : CompleteCall(c)

\* The recheck timer fires.
RecheckFire ==
  /\ Due(timerId)
  /\ Becomes(recheckFired(Cur))
  /\ UNCHANGED <<outstanding, lastStart, poolVars, dequeueVars, made, api>>

Next == Schedule \/ MaxDelayFire \/ Complete \/ RecheckFire \/ Tick

Spec == Init /\ [][Next]_vars

\* A limiter whose quota has no maxDelay (no maxDelay timer is ever set), where
\* time passes, the recheck timer fires when due and every wrapped function that
\* was invoked settles.
InitLive == Init /\ maxDelay(quota) = 0

NextLive == Schedule \/ Complete \/ RecheckFire \/ Tick

SpecLive ==
  /\ InitLive
  /\ [][NextLive]_vars
  /\ WF_vars(Tick)
  /\ WF_vars(RecheckFire)
  /\ WF_vars(Complete)

----------------------------------------------------------------------------
\* A limiter under test, as in test 'concurrency is enforced' and test 'rate
\* limits are enforced': the test gives jobs calls of api.fn() to the limiter at
\* once, each sleeping waitTime ms and then fulfilling, and time passes.  The
\* events due at the same millisecond happen in any order.  The age of a
\* history entry is followed up to interval + 2 x RecheckMs here.

\* The quotas of the tests: concurrency alone, or rate and interval alone.
MockQuotas ==
  {[concurrency |-> n] : n \in 1..3} \cup {[interval |-> 500, rate |-> r] : r \in 1..3}

WaitTimes == {100, 150, 200}

\* The time in the model at which a timer set for ms at time 0 is found due.
Ticks(ms) == TickMs * ((ms + TickMs - 1) \div TickMs)

Jobs == DOMAIN call

InitMock ==
  /\ quota \in MockQuotas
  /\ activeCount = 0
  /\ history = <<>>
  /\ queue = <<>>
  /\ timerId = NoTimer
  /\ \E jobs \in 1..MaxJobs : call = [c \in 1..jobs |-> NoCall]
  /\ started = <<>>
  /\ admitted = <<>>
  /\ outstanding = 0
  /\ lastStart = [called |-> FALSE, ok |-> FALSE, activeBefore |-> 0, lengthBefore |-> 0]
  /\ dequeue = NewDequeue
  /\ reference = <<>>
  /\ returned = NothingReturned
  /\ Made
  /\ \E w \in WaitTimes :
       api = [waitTime |-> w, sleeping |-> [c \in Jobs |-> 0],
              startedAt |-> [c \in Jobs |-> -1], elapsed |-> 0]
  /\ channelQuota = NoFields
  /\ heartbeatInterval = DefaultHeartbeatInterval
  /\ NoPool

\* The next state of the limiter is the record s; the functions invoked in the
\* step begin to sleep.
MockBecomes(s) ==
  /\ Becomes(s)
  /\ \E t \in {s} :
       LET invoked == {c \in Jobs : t.call[c].invoked > call[c].invoked} IN
       api' = [api EXCEPT
                 !.sleeping = [c \in Jobs |-> IF c \in invoked THEN api.waitTime ELSE @[c]],
                 !.startedAt = [c \in Jobs |-> IF c \in invoked THEN api.elapsed ELSE @[c]]]
  /\ UNCHANGED <<outstanding, lastStart, poolVars, dequeueVars, made>>

\* The test gives its next call to the limiter, all of them before time passes.
MockSchedule ==
  \E c \in Jobs :
    /\ api.elapsed = 0
    /\ call[c].st = "idle"
    /\ \A b \in Jobs : b < c => call[b].st # "idle"
    /\ MockBecomes(schedule(Cur, c))

\* The sleep of api.fn() is over: its promise fulfils.
MockFulfil ==
  \E c \in Jobs :
    /\ call[c].st = "running"
    /\ api.sleeping[c] = 0
    /\ MockBecomes(settled(Cur, c, [kind |-> "fulfilled", of |-> c]))

MockRecheckFire ==
  /\ Due(timerId)
  /\ MockBecomes(recheckFired(Cur))

\* Nothing is due at this millisecond.
MockQuiet ==
  /\ \A c \in Jobs : call[c].st # "idle"
  /\ ~Due(timerId)
  /\ \A c \in Jobs : call[c].st = "running" => api.sleeping[c] > 0

MockOlder(a, interval) ==
  IF a + TickMs > interval + 2 * RecheckMs THEN interval + 2 * RecheckMs ELSE a + TickMs

\* TickMs milliseconds pass.
MockTick ==
  /\ MockQuiet
  /\ api.elapsed + TickMs <= MaxElapsed
  /\ \E c \in Jobs : call[c].st # "done"
  /\ history' = IF Has(quota, "interval")
                  THEN [i \in DOMAIN history |-> MockOlder(history[i], quota.interval)]
                  ELSE history
  /\ admitted' = InWindow(AgeAll(admitted, quota), quota)
  /\ timerId' = IF timerId.armed THEN Timer(Later(timerId.left)) ELSE timerId
  /\ call' = [c \in Jobs |->
               [call[c] EXCEPT !.waited = IF call[c].st = "queued" THEN @ + TickMs ELSE @]]
  /\ api' = [api EXCEPT !.elapsed = @ + TickMs,
                        !.sleeping = [c \in Jobs |-> Later(@[c])]]
  /\ UNCHANGED <<quota, activeCount, queue, started, outstanding, lastStart,
                 poolVars, dequeueVars, made>>

NextMock == MockSchedule \/ MockFulfil \/ MockRecheckFire \/ MockTick

SpecMock == InitMock /\ [][NextMock]_vars

----------------------------------------------------------------------------
\* A QuotaManager driven directly: start() and end() called by hand, every
\* end() after a start() that returned true.

StartCall ==
  /\ outstanding < MaxActive
  /\ LET r == start(Cur) IN
       /\ Becomes(r.s)
       /\ lastStart' = [called |-> TRUE, ok |-> r.ok, activeBefore |-> activeCount,
                        lengthBefore |-> Len(history)]
       /\ outstanding' = IF r.ok THEN outstanding + 1 ELSE outstanding
       /\ UNCHANGED <<poolVars, dequeueVars, made, api>>

EndCall ==
  /\ outstanding > 0
  /\ Becomes(end(Cur))
  /\ outstanding' = outstanding - 1
  /\ UNCHANGED <<lastStart, poolVars, dequeueVars, made, api>>

NextQM == StartCall \/ EndCall \/ Tick

SpecQM == Init /\ [][NextQM]_vars

\* A QuotaManager driven directly by a caller that calls end() whenever it
\* likes, after a start() that returned true or not (the calls of end() beyond
\* the starts are MaxActive at most).
EndAnyCall ==
  /\ activeCount > -MaxActive
  /\ Becomes(end(Cur))
  /\ outstanding' = IF outstanding > 0 THEN outstanding - 1 ELSE 0
  /\ UNCHANGED <<lastStart, poolVars, dequeueVars, made, api>>

NextQMAny == StartCall \/ EndAnyCall \/ Tick

SpecQMAny == Init /\ [][NextQMAny]_vars

----------------------------------------------------------------------------
\* A pool of RedisQuotaManagers on one channel, all constructed with the same
\* channelQuota and heartbeatInterval.

PoolCur ==
  [channelQuota |-> channelQuota, heartbeatInterval |-> heartbeatInterval,
   rqm |-> rqm, channel |-> channel]

\* The next state of the pool is the record p.
PoolBecomes(p) ==
  \E t \in {p} :
  /\ channelQuota' = t.channelQuota
  /\ heartbeatInterval' = t.heartbeatInterval
  /\ rqm' = t.rqm
  /\ channel' = t.channel
  /\ UNCHANGED <<peerPings, limiterVars, dequeueVars, made, api>>

InitPool ==
  /\ quota = NoFields
  /\ NothingCalled
  /\ Made
  /\ channelQuota \in ChannelQuotas
  /\ heartbeatInterval \in HeartbeatIntervals
  /\ NoPool

\* new RedisQuotaManager(channelQuota, channelName, client, heartbeatInterval)
Construct ==
  \E k \in Peers :
    /\ rqm[k].at = "none"
    /\ \A j \in Peers : j < k => rqm[j].at # "none"
    /\ PoolBecomes(construct(PoolCur, k))

\* The Redis server takes the SUBSCRIBE of a coordinator.
Subscribe ==
  \E k \in Peers :
    /\ rqm[k].at = "subscribe"
    /\ ~channel[k].subscribed
    /\ PoolBecomes([PoolCur EXCEPT !.channel[k].subscribed = TRUE])

\* The coordinator learns that it is subscribed.
SubscribeDone ==
  \E k \in Peers :
    /\ rqm[k].at = "subscribe"
    /\ channel[k].subscribed
    /\ PoolBecomes(subscribed(PoolCur, k))

\* The discovery window of a coordinator is over.
SleepDone ==
  \E k \in Peers :
    /\ rqm[k].at = "sleep"
    /\ rqm[k].sleepLeft = 0
    /\ PoolBecomes(slept(PoolCur, k))

\* A coordinator's connection gives it the next message.
Message ==
  \E k \in Peers :
    /\ Len(channel[k].inbox) > 0
    /\ PoolBecomes(message(PoolCur, k))

\* A coordinator's heartbeat timer fires.
Heartbeat ==
  \E k \in Peers :
    /\ Due(rqm[k].heartbeatTimer)
    /\ PoolBecomes(heartbeat(PoolCur, k))

PoolLater(left) == IF left > PoolTickMs THEN left - PoolTickMs ELSE 0

\* The age of a ping after one PoolTick.  An age of 3 x heartbeatInterval or
\* more is kept as 3 x heartbeatInterval: removeOutdatedClients() treats every
\* such record alike.
PoolOlder(a) ==
  IF a + PoolTickMs > 3 * heartbeatInterval THEN 3 * heartbeatInterval ELSE a + PoolTickMs

\* The age of a history entry after one PoolTick (see Older).
PoolAged(log, q) ==
  IF Has(q, "interval")
    THEN [i \in DOMAIN log |->
            IF log[i] + PoolTickMs > q.interval THEN q.interval + 1 ELSE log[i] + PoolTickMs]
    ELSE log

PoolDue ==
  \E k \in Peers :
    \/ Due(rqm[k].heartbeatTimer)
    \/ rqm[k].at = "sleep" /\ rqm[k].sleepLeft = 0

\* PoolTickMs milliseconds pass.
PoolTick ==
  /\ ~PoolDue
  /\ \A k \in Peers : Len(channel[k].inbox) <= MaxInFlight
  /\ rqm' = [k \in Peers |->
              [rqm[k] EXCEPT
                 !.sleepLeft = PoolLater(@),
                 !.heartbeatTimer = IF @.armed THEN Timer(PoolLater(@.left)) ELSE @,
                 !.pingsReceived = [u \in DOMAIN @ |-> PoolOlder(@[u])],
                 !.history = PoolAged(@, rqm[k].quota)]]
  /\ UNCHANGED <<channelQuota, heartbeatInterval, channel, peerPings, limiterVars, dequeueVars, made, api>>

NextPool ==
  Construct \/ Subscribe \/ SubscribeDone \/ SleepDone \/ Message \/ Heartbeat \/ PoolTick

SpecPool == InitPool /\ [][NextPool]_vars

----------------------------------------------------------------------------
\* The pool on a channel that something else publishes to as well: payloads
\* that are not the uniqueId of a coordinator are sent to every connection
\* subscribed to the channel, at a moment when every message published before
\* has been given to its receivers.

MalformedQuotas == {[interval |-> 500, rate |-> 5, concurrency |-> 3]}

InitMalformed ==
  /\ quota = NoFields
  /\ NothingCalled
  /\ Made
  /\ channelQuota \in MalformedQuotas
  /\ heartbeatInterval = 2000
  /\ NoPool

PublishMalformed ==
  \E payload \in Malformed :
    /\ peerPings < MaxPeerPings
    /\ \A j \in Peers : channel[j].inbox = <<>>
    /\ channel' = [j \in Peers |->
                     IF channel[j].subscribed
                       THEN [channel[j] EXCEPT !.inbox = Append(@, payload)]
                       ELSE channel[j]]
    /\ peerPings' = peerPings + 1
    /\ UNCHANGED <<channelQuota, heartbeatInterval, rqm, limiterVars, dequeueVars, made, api>>

NextMalformed == NextPool \/ PublishMalformed

SpecMalformed == InitMalformed /\ [][NextMalformed]_vars

----------------------------------------------------------------------------
\* The pool when a coordinator of it may vanish: its process is killed, it
\* publishes nothing more and its connections are closed.  One coordinator
\* vanishes at most, from a pool of ready coordinators that know each other
\* with every message delivered.  The age of a ping is followed up to 4 x
\* heartbeatInterval here.

VanishQuotas == {[interval |-> 500, rate |-> 5, concurrency |-> 3, maxDelay |-> 100],
                 [interval |-> 500, rate |-> 5, fastStart |-> TRUE]}

InitVanish ==
  /\ quota = NoFields
  /\ NothingCalled
  /\ Made
  /\ channelQuota \in VanishQuotas
  /\ heartbeatInterval \in HeartbeatIntervals
  /\ NoPool

\* The coordinators that have been constructed and have not vanished know each
\* other, are ready and have been given every message.
KnowEachOther ==
  LET pool == {k \in Peers : rqm[k].at # "none"} IN
  /\ \A k \in pool : /\ rqm[k].at = "done" /\ rqm[k].ready
                      /\ DOMAIN rqm[k].pingsReceived = pool
  /\ \A k \in Peers : channel[k].inbox = <<>>

Vanish ==
  \E k \in Peers :
    /\ KnowEachOther
    /\ rqm[k].at = "done"
    /\ \E j \in Peers \ {k} : rqm[j].at = "done"
    /\ PoolBecomes([PoolCur EXCEPT !.rqm[k].at = "gone",
                                   !.rqm[k].heartbeatTimer = NoTimer,
                                   !.channel[k] = NoConnection])

VanishOlder(a) ==
  IF a + PoolTickMs > 4 * heartbeatInterval THEN 4 * heartbeatInterval ELSE a + PoolTickMs

\* PoolTickMs milliseconds pass.
VanishTick ==
  /\ ~PoolDue
  /\ \A k \in Peers : Len(channel[k].inbox) <= MaxInFlight
  /\ rqm' = [k \in Peers |->
              [rqm[k] EXCEPT
                 !.sleepLeft = PoolLater(@),
                 !.heartbeatTimer = IF @.armed THEN Timer(PoolLater(@.left)) ELSE @,
                 !.pingsReceived = [u \in DOMAIN @ |-> VanishOlder(@[u])]]]
  /\ UNCHANGED <<channelQuota, heartbeatInterval, channel, peerPings, limiterVars, dequeueVars, made, api>>

NextVanish ==
  \/ Construct \/ Subscribe \/ SubscribeDone \/ SleepDone \/ Message \/ Heartbeat
  \/ Vanish \/ VanishTick

SpecVanish == InitVanish /\ [][NextVanish]_vars

----------------------------------------------------------------------------
\* A limiter built on a coordinator of the pool, pRateLimit(rqm), and its
\* callers.  The coordinator is constructed first.  Of the other coordinators
\* of the pool only the pings are kept: any of them may ping at any time.  Time
\* passes PoolTickMs at a time here, for the limiter's timers too: a timer of
\* the limiter fires within one PoolTick of being due.

\* The coordinator given to pRateLimit.
limited == 1

\* The limiter's state, its quotaManager being coordinator k.
CoordCur(k) ==
  [Cur EXCEPT !.quota = rqm[k].quota,
              !.activeCount = rqm[k].activeCount,
              !.history = rqm[k].history]

\* The next state of the limiter and of its quotaManager, coordinator k, is the record s.
CoordBecomes(k, s) ==
  \E t \in {s} :
  /\ rqm' = [rqm EXCEPT ![k].activeCount = t.activeCount, ![k].history = t.history]
  /\ queue' = t.queue
  /\ timerId' = t.timerId
  /\ call' = t.call
  /\ started' = t.started
  /\ admitted' = t.admitted
  /\ UNCHANGED <<quota, activeCount, history, outstanding, lastStart,
                 channelQuota, heartbeatInterval, channel, peerPings, dequeueVars, made, api>>

CoordSchedule ==
  \E c \in Calls :
    /\ rqm[limited].at # "none"
    /\ c <= MaxCoordCalls
    /\ call[c].st = "idle"
    /\ \A b \in Calls : b < c => call[b].st # "idle"
    /\ CoordBecomes(limited, schedule(CoordCur(limited), c))

CoordMaxDelayFire ==
  \E c \in Calls :
    /\ call[c].timer = "armed"
    /\ call[c].left = 0
    /\ CoordBecomes(limited, maxDelayFired(CoordCur(limited), c))

CoordComplete ==
  \E c \in Calls :
    /\ call[c].st = "running"
    /\ \E kind \in {"fulfilled", "rejected"} :
         CoordBecomes(limited, settled(CoordCur(limited), c, [kind |-> kind, of |-> c]))

CoordRecheckFire ==
  /\ Due(timerId)
  /\ CoordBecomes(limited, recheckFired(CoordCur(limited)))

\* PoolTickMs milliseconds pass, for the pool and for the limiter.
CoordTick ==
  /\ ~PoolDue
  /\ ~AnyDue
  /\ \A k \in Peers : Len(channel[k].inbox) <= MaxInFlight
  /\ rqm' = [k \in Peers |->
              [rqm[k] EXCEPT
                 !.sleepLeft = PoolLater(@),
                 !.heartbeatTimer = IF @.armed THEN Timer(PoolLater(@.left)) ELSE @,
                 !.pingsReceived = [u \in DOMAIN @ |-> PoolOlder(@[u])],
                 !.history = PoolAged(@, rqm[k].quota)]]
  /\ admitted' = InWindow(PoolAged(admitted, channelQuota), channelQuota)
  /\ timerId' = IF timerId.armed THEN Timer(PoolLater(timerId.left)) ELSE timerId
  /\ call' = [c \in Calls |->
               [call[c] EXCEPT
                  !.left = IF call[c].timer = "armed" THEN PoolLater(@) ELSE @,
                  !.waited = IF call[c].st = "queued" /\ @ < maxDelay(channelQuota) + PoolTickMs
                               THEN @ + PoolTickMs ELSE @]]
  /\ UNCHANGED <<quota, activeCount, history, queue, started, outstanding, lastStart,
                 channelQuota, heartbeatInterval, channel, peerPings, dequeueVars, made, api>>

\* The step is one of the coordinator the limiter is built on.
OfLimited == \A k \in Peers \ {limited} : rqm'[k] = rqm[k]

CoordConstruct == Construct /\ OfLimited

CoordSubscribe == Subscribe /\ OfLimited

CoordSubscribeDone == SubscribeDone /\ OfLimited

CoordSleepDone == SleepDone /\ OfLimited

CoordMessage == Message /\ OfLimited

CoordHeartbeat == Heartbeat /\ OfLimited

\* Another coordinator of the pool publishes a ping.
PeerPing ==
  \E u \in Peers \ {limited} :
    /\ channel[limited].subscribed
    /\ peerPings < MaxPeerPings
    /\ channel' = [channel EXCEPT ![limited].inbox = Append(@, u)]
    /\ peerPings' = peerPings + 1
    /\ UNCHANGED <<channelQuota, heartbeatInterval, rqm, limiterVars, dequeueVars, made, api>>

NextCoord ==
  \/ CoordConstruct \/ CoordSubscribe \/ CoordSubscribeDone \/ CoordSleepDone
  \/ CoordMessage \/ CoordHeartbeat \/ PeerPing
  \/ CoordSchedule \/ CoordMaxDelayFire \/ CoordComplete \/ CoordRecheckFire \/ CoordTick

SpecCoord == InitPool /\ [][NextCoord]_vars

\* The same under concurrency quotas without maxDelay (no call is given up) and
\* without fastStart, where time passes, the
\* timers fire when due, the messages published are delivered, register()
\* continues when its awaits end and every invoked function settles.
LiveChannelQuotas == {[concurrency |-> 1], [concurrency |-> 2]}

InitCoordLive ==
  /\ quota = NoFields
  /\ NothingCalled
  /\ Made
  /\ channelQuota \in LiveChannelQuotas
  /\ heartbeatInterval \in HeartbeatIntervals
  /\ NoPool

NextCoordLive ==
  \/ CoordConstruct \/ CoordSubscribe \/ CoordSubscribeDone \/ CoordSleepDone
  \/ CoordMessage \/ CoordHeartbeat \/ PeerPing
  \/ CoordSchedule \/ CoordComplete \/ CoordRecheckFire \/ CoordTick

SpecCoordLive ==
  /\ InitCoordLive
  /\ [][NextCoordLive]_vars
  /\ WF_vars(CoordSubscribeDone)
  /\ WF_vars(CoordSleepDone)
  /\ WF_vars(CoordMessage)
  /\ WF_vars(CoordHeartbeat)
  /\ WF_vars(CoordTick)
  /\ WF_vars(CoordRecheckFire)
  /\ WF_vars(CoordComplete)

----------------------------------------------------------------------------
\* The pool with every coordinator driven directly: start() and end() called
\* by hand on each, every end() after a start() that returned true.  No
\* coordinator has fastStart.  admitted holds the admissions of the whole pool
\* in the last interval of the channelQuota.

ShareQuotas == {[concurrency |-> 2]}

InitShare ==
  /\ quota = NoFields
  /\ NothingCalled
  /\ Made
  /\ channelQuota \in ShareQuotas
  /\ heartbeatInterval = 2000
  /\ NoPool

StartOn ==
  \E k \in Peers :
    /\ rqm[k].at # "none"
    /\ rqm[k].activeCount < MaxActive
    /\ CoordBecomes(k, start(CoordCur(k)).s)

EndOn ==
  \E k \in Peers :
    /\ rqm[k].activeCount > 0
    /\ CoordBecomes(k, end(CoordCur(k)))

NextShare ==
  \/ Construct \/ Subscribe \/ SubscribeDone \/ SleepDone \/ Message \/ Heartbeat
  \/ StartOn \/ EndOn \/ CoordTick

SpecShare == InitShare /\ [][NextShare]_vars

----------------------------------------------------------------------------
\* The RedisQuotaManager whose messages are JOIN, LEAVE and PING, with
\* unregister().  The variables rqm, channel and channelQuota hold its pool: a
\* message in a connection is a record of command and value; every coordinator
\* is constructed with the same channelQuota, so the channelQuota a JOIN
\* carries is the one its receiver has.

HEARTBEAT_INTERVAL == 30000

\* The quota of the constructor's super() call and of unregister().
ZeroQuota == [interval |-> 1000, rate |-> 0, concurrency |-> 0]

\* Time passes LeaveTickMs at a time in this pool.
LeaveTickMs == 15000

JoinLeaveQuotas == {[interval |-> 500, rate |-> 5, concurrency |-> 3]}

\* A coordinator that has not been constructed.
NoJoinLeaveManager ==
  [at             |-> "none",   \* where register() is: none, subscribe, sleep, done
   quota          |-> NoFields, \* _quota
   ready          |-> FALSE,    \* _ready
   clientPings    |-> <<>>,     \* uniqueId -> age of the last message received from it
   sleepLeft      |-> 0,        \* ms left of the setTimeout of 3000
   heartbeatTimer |-> NoTimer,
   un             |-> "none",   \* where unregister() is: none, unsubscribe, done
   reclaimed      |-> {}]       \* the uniqueIds whose record a LEAVE has deleted

\* The constructor, and register() up to its first await.
constructJL(p, k) ==
  [p EXCEPT !.rqm[k] =
     [NoJoinLeaveManager EXCEPT !.at = "subscribe", !.quota = ZeroQuota,
                                !.clientPings = (k :> 0)]]

\* sendMessage(command, value): the server sends the message to every
\* connection subscribed to the channel.
sendMessage(p, command, value) ==
  [p EXCEPT !.channel =
     [j \in Peers |->
        IF p.channel[j].subscribed
          THEN [p.channel[j] EXCEPT
                  !.inbox = Append(@, [command |-> command, value |-> value])]
          ELSE p.channel[j]]]

\* removeOutdatedClientPings(): the records with v <= Date.now() - 3 x
\* HEARTBEAT_INTERVAL are deleted.
removeOutdatedClientPings(pings) ==
  [u \in {v \in DOMAIN pings : pings[v] < 3 * HEARTBEAT_INTERVAL} |-> pings[u]]

\* updateQuota()
updateQuotaJL(p, k) ==
  LET pings    == removeOutdatedClientPings(p.rqm[k].clientPings)
      size     == Cardinality(DOMAIN pings)
      q        == p.channelQuota
      withRate == [rate |-> IF Has(q, "rate") THEN q.rate \div size ELSE NaN] @@ q
      newQuota == IF Has(q, "concurrency") /\ q.concurrency # 0
                    THEN [concurrency |-> q.concurrency \div size] @@ withRate
                    ELSE withRate
  IN  IF size = 0
        THEN [p EXCEPT !.rqm[k].clientPings = pings]
        ELSE [p EXCEPT !.rqm[k].clientPings = pings, !.rqm[k].quota = newQuota]

\* The subscribe of register() has completed: JOIN is sent and the 3000 ms begin.
subscribedJL(p, k) ==
  [sendMessage(p, "JOIN", k) EXCEPT !.rqm[k].at = "sleep", !.rqm[k].sleepLeft = DiscoveryMs]

\* The 3000 ms are over: the rest of register().
sleptJL(p, k) ==
  [updateQuotaJL(p, k) EXCEPT
     !.rqm[k].ready = TRUE,
     !.rqm[k].at = "done",
     !.rqm[k].heartbeatTimer = Timer(HEARTBEAT_INTERVAL)]

\* unregister() up to its await: clearInterval(heartbeatTimer), unsubscribe sent.
unregister(p, k) ==
  [p EXCEPT !.rqm[k].heartbeatTimer = NoTimer, !.rqm[k].un = "unsubscribe"]

\* The unsubscribe of unregister() has completed: the rest of unregister().
unsubscribed(p, k) ==
  [sendMessage(p, "LEAVE", k) EXCEPT !.rqm[k].quota = ZeroQuota, !.rqm[k].un = "done"]

\* A message() that leaves the quota alone on LEAVE.
messageJL_leaveKeepsQuota(p, k) ==
  LET command == Head(p.channel[k].inbox).command
      value   == Head(p.channel[k].inbox).value
      taken   == [p EXCEPT !.channel[k].inbox = Tail(@)]
      set     == [taken EXCEPT !.rqm[k].clientPings = (value :> 0) @@ @]
      updated == IF set.rqm[k].ready THEN updateQuotaJL(set, k) ELSE set
  IN  CASE command = "JOIN" ->
             IF value # k THEN sendMessage(updated, "PING", k) ELSE taken
        [] command = "LEAVE" ->
             [taken EXCEPT
                !.rqm[k].clientPings = [u \in DOMAIN @ \ {value} |-> @[u]],
                !.rqm[k].reclaimed =
                   IF value \in DOMAIN taken.rqm[k].clientPings THEN @ \cup {value} ELSE @]
        [] command = "PING" ->
             IF value \in DOMAIN p.rqm[k].clientPings THEN set ELSE updated

\* message(), called with the message at the front of the connection.
messageJL(p, k) ==
  LET command == Head(p.channel[k].inbox).command
      value   == Head(p.channel[k].inbox).value
      taken   == [p EXCEPT !.channel[k].inbox = Tail(@)]
      set     == [taken EXCEPT !.rqm[k].clientPings = (value :> 0) @@ @]
      updated == IF set.rqm[k].ready THEN updateQuotaJL(set, k) ELSE set
  IN  CASE command = "JOIN" ->
             IF value # k THEN sendMessage(updated, "PING", k) ELSE taken
        [] command = "LEAVE" ->
             LET deleted ==
                   [taken EXCEPT
                      !.rqm[k].clientPings = [u \in DOMAIN @ \ {value} |-> @[u]],
                      !.rqm[k].reclaimed =
                         IF value \in DOMAIN taken.rqm[k].clientPings
                           THEN @ \cup {value} ELSE @]
             IN  IF deleted.rqm[k].ready THEN updateQuotaJL(deleted, k) ELSE deleted
        [] command = "PING" ->
             IF value \in DOMAIN p.rqm[k].clientPings THEN set ELSE updated

\* heartbeat(), called by setInterval; housekeeping is getRandomInt(0, 5) === 0.
heartbeatJL(p, k, housekeeping) ==
  LET pinged == [sendMessage(p, "PING", k) EXCEPT
                   !.rqm[k].heartbeatTimer = Timer(HEARTBEAT_INTERVAL)]
  IN  IF housekeeping THEN updateQuotaJL(pinged, k) ELSE pinged

InitLeave ==
  /\ quota = NoFields
  /\ NothingCalled
  /\ Made
  /\ channelQuota \in JoinLeaveQuotas
  /\ heartbeatInterval = HEARTBEAT_INTERVAL
  /\ rqm = [k \in Peers |-> NoJoinLeaveManager]
  /\ channel = [k \in Peers |-> NoConnection]
  /\ peerPings = 0

\* new RedisQuotaManager(channelQuota, channelName, client)
ConstructJL ==
  \E k \in Peers :
    /\ rqm[k].at = "none"
    /\ \A j \in Peers : j < k => rqm[j].at # "none"
    /\ PoolBecomes(constructJL(PoolCur, k))

\* The coordinator learns that it is subscribed.
SubscribeDoneJL ==
  \E k \in Peers :
    /\ rqm[k].at = "subscribe"
    /\ channel[k].subscribed
    /\ PoolBecomes(subscribedJL(PoolCur, k))

\* The discovery window of a coordinator is over.
SleepDoneJL ==
  \E k \in Peers :
    /\ rqm[k].at = "sleep"
    /\ rqm[k].sleepLeft = 0
    /\ PoolBecomes(sleptJL(PoolCur, k))

\* A coordinator's connection gives it the next message.
MessageJL ==
  \E k \in Peers :
    /\ Len(channel[k].inbox) > 0
    /\ PoolBecomes(messageJL(PoolCur, k))

\* A coordinator's heartbeat timer fires.
HeartbeatJL ==
  \E k \in Peers :
    /\ Due(rqm[k].heartbeatTimer)
    /\ \E housekeeping \in BOOLEAN : PoolBecomes(heartbeatJL(PoolCur, k, housekeeping))

\* unregister() is called on a coordinator that has sent its JOIN, once.
Unregister ==
  \E k \in Peers :
    /\ rqm[k].at \in {"sleep", "done"}
    /\ rqm[k].un = "none"
    /\ PoolBecomes(unregister(PoolCur, k))

\* The Redis server takes the UNSUBSCRIBE of a coordinator.
Unsubscribe ==
  \E k \in Peers :
    /\ rqm[k].un = "unsubscribe"
    /\ channel[k].subscribed
    /\ PoolBecomes([PoolCur EXCEPT !.channel[k].subscribed = FALSE])

\* The coordinator learns that it is unsubscribed, after the messages sent to
\* it before.
UnsubscribeDone ==
  \E k \in Peers :
    /\ rqm[k].un = "unsubscribe"
    /\ ~channel[k].subscribed
    /\ channel[k].inbox = <<>>
    /\ PoolBecomes(unsubscribed(PoolCur, k))

LeaveLater(left) == IF left > LeaveTickMs THEN left - LeaveTickMs ELSE 0

\* The age of a record after one LeaveTick, kept as 3 x HEARTBEAT_INTERVAL from there on.
LeaveOlder(a) ==
  IF a + LeaveTickMs > 3 * HEARTBEAT_INTERVAL THEN 3 * HEARTBEAT_INTERVAL ELSE a + LeaveTickMs

\* LeaveTickMs milliseconds pass; the messages published have been delivered.
LeaveTick ==
  /\ ~PoolDue
  /\ \A k \in Peers : Len(channel[k].inbox) = 0
  /\ rqm' = [k \in Peers |->
              [rqm[k] EXCEPT
                 !.sleepLeft = LeaveLater(@),
                 !.heartbeatTimer = IF @.armed THEN Timer(LeaveLater(@.left)) ELSE @,
                 !.clientPings = [u \in DOMAIN @ |-> LeaveOlder(@[u])]]]
  /\ UNCHANGED <<channelQuota, heartbeatInterval, channel, peerPings, limiterVars, dequeueVars, made, api>>

NextLeave ==
  \/ ConstructJL \/ Subscribe \/ SubscribeDoneJL \/ SleepDoneJL \/ MessageJL \/ HeartbeatJL
  \/ Unregister \/ Unsubscribe \/ UnsubscribeDone \/ LeaveTick

SpecLeave == InitLeave /\ [][NextLeave]_vars

----------------------------------------------------------------------------
\* A Dequeue and the methods called on it, beside a sequence that is given the
\* same operations: reference holds the values front to back, and expected is
\* what the method returns on it.

InitDequeue ==
  /\ quota = NoFields
  /\ NothingCalled
  /\ Made
  /\ channelQuota = NoFields
  /\ heartbeatInterval = DefaultHeartbeatInterval
  /\ NoPool

\* Method op was called: it gave the record r, on a sequence it returns
\* expected and the sequence is ref afterwards.
DequeueBecomes(op, r, expected, ref) ==
  /\ dequeue' = r.d
  /\ returned' = [op |-> op, wasEmpty |-> reference = <<>>, ret |-> r.ret,
                  expected |-> expected]
  /\ reference' = ref
  /\ UNCHANGED <<limiterVars, poolVars, made, api>>

Front(q) == IF q = <<>> THEN undefined ELSE Value(Head(q))

Back(q) == IF q = <<>> THEN undefined ELSE Value(q[Len(q)])

Clear == DequeueBecomes("clear", clear(dequeue), undefined, <<>>)

Push ==
  \E v \in Values :
    /\ Len(dequeue.nodes) < MaxNodes
    /\ DequeueBecomes("push", push(dequeue, v), undefined, Append(reference, v))

Unshift ==
  \E v \in Values :
    /\ Len(dequeue.nodes) < MaxNodes
    /\ DequeueBecomes("unshift", unshift(dequeue, v), undefined, <<v>> \o reference)

Pop ==
  DequeueBecomes("pop", pop(dequeue), Back(reference),
                 IF reference = <<>> THEN <<>> ELSE SubSeq(reference, 1, Len(reference) - 1))

Shift ==
  DequeueBecomes("shift", shift(dequeue), Front(reference),
                 IF reference = <<>> THEN <<>> ELSE Tail(reference))

PeekFront == DequeueBecomes("peekFront", peekFront(dequeue), Front(reference), reference)

PeekBack == DequeueBecomes("peekBack", peekBack(dequeue), Back(reference), reference)

NextDequeue == Clear \/ Push \/ Unshift \/ Pop \/ Shift \/ PeekFront \/ PeekBack

SpecDequeue == InitDequeue /\ [][NextDequeue]_vars

----------------------------------------------------------------------------
\* new QuotaManager(arg) for the arguments a caller may give: an object with
\* any of the properties of Quota, or no object at all.

Arguments ==
  {[typeof |-> "undefined", quota |-> NoFields]} \cup
  {[typeof |-> "object", quota |-> i @@ r @@ c @@ d] :
     i \in {NoFields} \cup {[interval |-> v] : v \in {0, 500}},
     r \in {NoFields} \cup {[rate |-> v] : v \in {0, 5}},
     c \in {NoFields} \cup {[concurrency |-> v] : v \in {0, 1}},
     d \in {NoFields, [maxDelay |-> 100]}}

InitNew ==
  /\ quota = NoFields
  /\ NothingCalled
  /\ made \in {[arg |-> a, result |-> "none"] : a \in Arguments}
  /\ channelQuota = NoFields
  /\ heartbeatInterval = DefaultHeartbeatInterval
  /\ NoPool

New ==
  /\ made.result = "none"
  /\ LET r == newQuotaManager(made.arg) IN
       /\ made' = [made EXCEPT !.result = r.result]
       /\ quota' = r.quota
  /\ UNCHANGED <<activeCount, history, queue, timerId, call, started, admitted,
                 outstanding, lastStart, poolVars, dequeueVars, api>>

NextNew == New

SpecNew == InitNew /\ [][NextNew]_vars

----------------------------------------------------------------------------
\* C1.  A QuotaManager with a fixed quota whose concurrency is defined, driven
\* by start() and end() with every end() after a matching successful start():
\* activeCount never exceeds concurrency, and a start() called while
\* activeCount >= concurrency returns false.
C1_ConcurrencyNeverExceeded ==
  Has(quota, "concurrency") =>
    /\ activeCount <= quota.concurrency
    /\ (lastStart.called /\ lastStart.activeBefore >= quota.concurrency) => ~lastStart.ok

\* A start() was refused at activeCount = concurrency, and the manager is full.
C1_Witness ==
  /\ Has(quota, "concurrency")
  /\ quota.concurrency = 2
  /\ activeCount = quota.concurrency
  /\ lastStart.called
  /\ lastStart.activeBefore = quota.concurrency
  /\ ~lastStart.ok

\* C2.  A QuotaManager with a fixed {rate, interval} quota: at every moment the
\* start() calls that returned true and whose timestamp lies in the window of
\* length interval ending now, [now - interval, now], number at most rate.  The
\* window ending at the latest admission of any window of that length holds all
\* its admissions, so this is the bound for every window.
C2_RateNeverExceeded ==
  Has(quota, "rate") => Len(admitted) <= quota.rate

\* The window is full, its oldest admission is exactly interval old, and a
\* start() that concurrency allowed has just been refused.
C2_Witness ==
  /\ Has(quota, "rate")
  /\ quota.rate = 2
  /\ Len(admitted) = quota.rate
  /\ admitted[1] = quota.interval
  /\ lastStart.called
  /\ ~lastStart.ok
  /\ lastStart.lengthBefore = quota.rate
  /\ (Has(quota, "concurrency") => lastStart.activeBefore < quota.concurrency)

----------------------------------------------------------------------------
\* Calls are given to the limiter in the order of their ids (Schedule).

Given(c) == call[c].st # "idle"

Range(q) == {q[i] : i \in DOMAIN q}

\* C3.  Strict FIFO: the wrapped functions are invoked in the order in which
\* the calls were given to the limiter, whatever drained the queue (a
\* completion, the recheck timer, a timeout) and whatever timed out in between.
C3_StartsInFifoOrder ==
  \A i, j \in DOMAIN started : i < j => started[i] < started[j]

\* Call 2 timed out in the queue, and calls 1 and 3 were started around it.
C3_Witness ==
  /\ started = <<1, 3>>
  /\ call[2].timedOut
  /\ call[2].st = "skipped"

\* C4.  With maxDelay > 0, a call not started maxDelay ms after it was given to
\* the limiter is rejected with RateLimitTimeoutError as soon as its timer is
\* due (before more time passes), and a call rejected so is never invoked.
C4_TimeoutRejectsUnstartedCall ==
  maxDelay(quota) > 0 =>
    \A c \in Calls :
      /\ (Given(c) /\ call[c].invoked = 0 /\ call[c].waited >= maxDelay(quota) + TickMs)
            => call[c].result = TimeoutError
      /\ call[c].result = TimeoutError => call[c].invoked = 0

\* A call was rejected by its timer, its run closure was later taken from the
\* queue, and its function was not invoked.
C4_Witness ==
  \E c \in Calls :
    /\ call[c].result = TimeoutError
    /\ call[c].st = "skipped"
    /\ call[c].invoked = 0
    /\ call[c].waited >= maxDelay(quota)

\* C5.  With maxDelay 0 or unset the limiter never rejects a call itself: no
\* timer is armed, a queued call stays pending in the queue for as long as it is
\* refused, every pending call is held, and a promise settles only with the
\* outcome of its own wrapped function.
C5_NoMaxDelayNeverRejects ==
  maxDelay(quota) = 0 =>
    /\ Len(queue) = Cardinality({c \in Calls : call[c].st = "queued"})
    /\ \A c \in Calls :
         /\ call[c].timer = "null"
         /\ ~call[c].timedOut
         /\ call[c].st # "skipped"
         /\ call[c].result # TimeoutError
         /\ call[c].st = "queued" => (call[c].result = Pending /\ c \in Range(queue))
         /\ call[c].result # Pending =>
              (call[c].result = call[c].fnOut /\ call[c].result.of = c)

\* Two calls have been waiting in the queue for longer than 100 ms, unrejected.
C5_Witness ==
  /\ maxDelay(quota) = 0
  /\ Len(queue) = 2
  /\ \A i \in DOMAIN queue :
       call[queue[i]].waited >= 2 * TickMs /\ call[queue[i]].result = Pending

\* C6.  For every call whose wrapped function was invoked, the limiter's
\* promise is pending while the function's promise is, and settles with exactly
\* the same outcome (same kind, same value).
C6_OutcomePassedThrough ==
  \A c \in Calls :
    call[c].invoked > 0 =>
      /\ call[c].fnOut = Pending => call[c].result = Pending
      /\ call[c].fnOut # Pending => call[c].result = call[c].fnOut

\* One call was rejected with its function's error, another fulfilled with its
\* function's value.
C6_Witness ==
  \E c, d \in Calls :
    /\ call[c].result = [kind |-> "rejected", of |-> c]
    /\ call[d].result = [kind |-> "fulfilled", of |-> d]

\* C7.  For every call at most one of {its function is invoked, its maxDelay
\* timer fires}: a started call has no armed timer, the function is invoked at
\* most once, and resolve / reject is called at most once in all.
C7_RunOrTimeoutNotBoth ==
  \A c \in Calls :
    /\ ~(call[c].invoked > 0 /\ call[c].timedOut)
    /\ call[c].invoked <= 1
    /\ call[c].settles <= 1
    /\ call[c].invoked > 0 => call[c].timer # "armed"

\* One call ran to completion with its timer cleared; another timed out and was
\* skipped when its turn came.
C7_Witness ==
  \E c, d \in Calls :
    /\ call[c].st = "done" /\ call[c].timer = "cleared" /\ call[c].settles = 1
    /\ call[d].st = "skipped" /\ call[d].timedOut /\ call[d].settles = 1

\* C8.  With a fixed quota whose rate and concurrency are >= 1 or absent and no
\* maxDelay, when every invoked function settles, every call given to the
\* limiter is eventually started: from every state a state is reached where
\* each call given so far has been invoked (an invoked call stays invoked, so
\* this is the same as each queued call being started eventually), and the
\* queue never stalls while non-empty.
C8_EveryCallStarts ==
  (/\ maxDelay(quota) = 0
   /\ Has(quota, "rate") => quota.rate >= 1
   /\ Has(quota, "concurrency") => quota.concurrency >= 1
   /\ \E c \in Calls : call[c].st = "queued")
    ~> (Len(queue) = 0 /\ \A c \in Calls : Given(c) => call[c].invoked > 0)

\* Under a rate-only quota a call waited in the queue for a whole interval with
\* nothing active, and was then started.
C8_Witness ==
  /\ maxDelay(quota) = 0
  /\ Has(quota, "rate") /\ quota.rate = 1
  /\ ~Has(quota, "concurrency")
  /\ \E c \in Calls :
       /\ call[c].invoked > 0
       /\ call[c].waited >= quota.interval
       /\ \A b \in Calls : b < c => call[b].st = "done"

\* C9.  activeCount equals the number of wrapped functions that were invoked
\* and have not settled.
C9_ActiveCountIsRunning ==
  activeCount = Cardinality({c \in Calls : call[c].st = "running"})

\* Every call given to the limiter has settled, one of them by its maxDelay
\* timer, and the run closure of that one has been taken from the queue.
C9_Witness ==
  /\ \E c \in Calls : Given(c)
  /\ \A c \in Calls : Given(c) => call[c].result # Pending
  /\ \E c \in Calls : call[c].timedOut /\ call[c].st = "skipped"
  /\ Len(queue) = 0

----------------------------------------------------------------------------
\* The coordinators of the pool.
Constructed == {k \in Peers : rqm[k].at # "none"}

\* Every coordinator of the pool has completed register(), and every message
\* published has been given to its receivers.
Converged ==
  /\ Constructed # {}
  /\ \A k \in Constructed : rqm[k].at = "done" /\ rqm[k].ready
  /\ \A k \in Peers : channel[k].inbox = <<>>

\* C10.  In a pool of K coordinators constructed with the same channelQuota
\* {rate R, interval I, concurrency C}, once all K have completed discovery and
\* every message is delivered, each coordinator's quota has rate floor(R / K),
\* concurrency floor(C / K) if C was configured, and the interval and maxDelay
\* of the channelQuota.
C10_PoolSharesQuota ==
  (Converged /\ Has(channelQuota, "rate")) =>
    LET K == Cardinality(Constructed) IN
    \A k \in Constructed :
      /\ Has(rqm[k].quota, "rate") /\ rqm[k].quota.rate = channelQuota.rate \div K
      /\ Has(channelQuota, "concurrency") =>
           /\ Has(rqm[k].quota, "concurrency")
           /\ rqm[k].quota.concurrency = channelQuota.concurrency \div K
      /\ Has(rqm[k].quota, "interval") /\ rqm[k].quota.interval = channelQuota.interval
      /\ Has(channelQuota, "maxDelay") =>
           /\ Has(rqm[k].quota, "maxDelay")
           /\ rqm[k].quota.maxDelay = channelQuota.maxDelay
      /\ Has(rqm[k].quota, "maxDelay") => Has(channelQuota, "maxDelay")

\* Two coordinators of one pool have both completed discovery, every message is
\* delivered, each knows both, and each holds floor(5 / 2) of the rate and
\* floor(3 / 2) of the concurrency.
C10_Witness ==
  /\ Converged
  /\ Cardinality(Constructed) = 2
  /\ Has(channelQuota, "rate") /\ channelQuota.rate = 5
  /\ Has(channelQuota, "concurrency") /\ channelQuota.concurrency = 3
  /\ ~fastStart(channelQuota)
  /\ \A k \in Constructed :
       /\ DOMAIN rqm[k].pingsReceived = Constructed
       /\ rqm[k].quota.rate = 2
       /\ rqm[k].quota.concurrency = 1

----------------------------------------------------------------------------
\* The limiter built on the coordinator `limited`.

\* The coordinator is in its Initializing state: constructed, ready not yet true.
Initializing == rqm[limited].at # "none" /\ ~rqm[limited].ready

\* The coordinator's share of the channelQuota admits at least one call.
NonZeroShare ==
  /\ Has(rqm[limited].quota, "concurrency") => rqm[limited].quota.concurrency >= 1
  /\ Has(channelQuota, "rate") => rqm[limited].quota.rate >= 1

\* C11.  Without fastStart, while the coordinator is Initializing its effective
\* concurrency is 0, no wrapped function has been invoked and every call given
\* to the limiter is in the queue; and once the coordinator is ready with a
\* non-zero share, the queued calls are started with no further call scheduled:
\* from a ready state with calls queued a state is reached where the queue is
\* empty and every call given has been invoked, or the share has become zero.
C11_NothingRunsBeforeReady ==
  /\ [](Initializing =>
          /\ rqm[limited].quota.concurrency = 0
          /\ rqm[limited].activeCount = 0
          /\ \A c \in Calls : call[c].invoked = 0 /\ (Given(c) => call[c].st = "queued"))
  /\ (rqm[limited].ready /\ NonZeroShare /\ Len(queue) > 0)
       ~> (\/ Len(queue) = 0 /\ \A c \in Calls : Given(c) => call[c].invoked > 0
           \/ ~NonZeroShare)

\* The only call given to the limiter waited in the queue, which with no peer
\* in the pool it does only while the coordinator is Initializing, and has been
\* invoked now that the coordinator is ready with a share of 1.
C11_Witness ==
  /\ ~fastStart(channelQuota)
  /\ peerPings = 0
  /\ rqm[limited].ready
  /\ rqm[limited].quota.concurrency = 1
  /\ call[1].invoked = 1 /\ call[1].waited > 0
  /\ \A c \in Calls \ {1} : call[c].st = "idle"

\* The share of the channelQuota that updateQuota() computes for a peer set of n.
ShareOf(n) ==
  /\ Has(channelQuota, "rate") => rqm[limited].quota.rate = channelQuota.rate \div n
  /\ Has(channelQuota, "concurrency") =>
       rqm[limited].quota.concurrency = channelQuota.concurrency \div n
  /\ Has(channelQuota, "interval") => rqm[limited].quota.interval = channelQuota.interval
  /\ ~Has(channelQuota, "concurrency") => ~Has(rqm[limited].quota, "concurrency")

\* C12.  A coordinator created with fastStart is ready from construction on and
\* its effective quota is the channelQuota divided by the number of peers it
\* knows: the full nominal quota at construction, when it knows only itself,
\* and the computed share once peers are discovered.  Until a peer pings, a
\* call given to the limiter waits in the queue only when the full quota is
\* used up (it is admitted without waiting for discovery).
C12_FastStartFullQuota ==
  (fastStart(channelQuota) /\ rqm[limited].at # "none") =>
    LET n == Cardinality(DOMAIN rqm[limited].pingsReceived) IN
    /\ rqm[limited].ready
    /\ n > 0 => ShareOf(n)
    /\ (peerPings = 0 /\ Len(queue) > 0) =>
         \/ /\ Has(channelQuota, "concurrency")
            /\ rqm[limited].activeCount >= channelQuota.concurrency
         \/ /\ Has(channelQuota, "rate")
            /\ Len(rqm[limited].history) >= channelQuota.rate

\* A fastStart coordinator whose register() has not completed has admitted a
\* call at once, with 3 of 3 concurrency, and on discovering a peer has lowered
\* its quota to floor(5 / 2) and floor(3 / 2).
C12_Witness ==
  /\ fastStart(channelQuota)
  /\ rqm[limited].at # "done"
  /\ call[1].invoked = 1 /\ call[1].waited = 0
  /\ DOMAIN rqm[limited].pingsReceived = Peers
  /\ Has(channelQuota, "concurrency") /\ channelQuota.concurrency = 3
  /\ Has(channelQuota, "rate") /\ channelQuota.rate = 5
  /\ rqm[limited].quota.concurrency = 1
  /\ rqm[limited].quota.rate = 2

----------------------------------------------------------------------------
\* The pool whose messages are JOIN, LEAVE and PING.

\* Coordinator k is given a LEAVE message in this step.
LeaveDelivered(k) ==
  /\ Len(channel[k].inbox) > 0
  /\ Head(channel[k].inbox).command = "LEAVE"
  /\ channel'[k].inbox = Tail(channel[k].inbox)

\* The records coordinator k holds are those of the coordinators that
\* completed register() and have not unregistered, k among them, none expired.
KnowsPool(k) ==
  /\ rqm[k].ready /\ rqm[k].un = "none"
  /\ DOMAIN rqm[k].clientPings = {j \in Peers : rqm[j].ready}
  /\ \A u \in DOMAIN rqm[k].clientPings : rqm[k].clientPings[u] < 3 * HEARTBEAT_INTERVAL

\* C13.  When the LEAVE message of a coordinator that unregistered is given to
\* a ready coordinator, that step deletes the leaver's record and sets the
\* quota to the channelQuota divided by the number of records left; for a
\* coordinator that knew the K coordinators of a converged pool this is
\* floor(R / (K - 1)) and floor(C / (K - 1)), with no expiry awaited.
C13_LeaveReclaimsAtOnce ==
  [][\A k \in Peers :
       (LeaveDelivered(k) /\ rqm[k].ready /\ rqm[k].un = "none") =>
         LET leaver == Head(channel[k].inbox).value
             K      == Cardinality(DOMAIN rqm[k].clientPings)
             n      == Cardinality(DOMAIN rqm'[k].clientPings)
         IN  /\ leaver \notin DOMAIN rqm'[k].clientPings
             /\ n > 0 =>
                  /\ rqm'[k].quota.rate = channelQuota.rate \div n
                  /\ rqm'[k].quota.concurrency = channelQuota.concurrency \div n
             /\ (KnowsPool(k) /\ leaver # k /\ leaver \in DOMAIN rqm[k].clientPings) =>
                  /\ rqm'[k].quota.rate = channelQuota.rate \div (K - 1)
                  /\ rqm'[k].quota.concurrency = channelQuota.concurrency \div (K - 1)]_vars

\* Coordinator 1, ready, has been given the LEAVE of coordinator 2, which had
\* completed register(); it has deleted the record and holds the whole
\* channelQuota again, its own record younger than one heartbeat interval.
C13_Witness ==
  /\ rqm[1].ready /\ rqm[1].un = "none"
  /\ rqm[2].ready /\ rqm[2].un = "done"
  /\ 2 \in rqm[1].reclaimed
  /\ DOMAIN rqm[1].clientPings = {1}
  /\ rqm[1].clientPings[1] < HEARTBEAT_INTERVAL
  /\ rqm[1].quota.rate = channelQuota.rate
  /\ rqm[1].quota.concurrency = channelQuota.concurrency

----------------------------------------------------------------------------
\* The pool driven by start() and end().

RECURSIVE SumActive(_)
SumActive(S) ==
  IF S = {} THEN 0
  ELSE LET k == CHOOSE j \in S : TRUE IN rqm[k].activeCount + SumActive(S \ {k})

\* C15.  With no coordinator created with fastStart, the pool combined stays
\* within the channelQuota in every reachable state: the activeCounts of the
\* coordinators sum to at most its concurrency, and the admissions of all of
\* them within the last interval number at most its rate.
C15_PoolWithinNominalQuota ==
  ~fastStart(channelQuota) =>
    /\ Has(channelQuota, "concurrency") => SumActive(Peers) <= channelQuota.concurrency
    /\ Has(channelQuota, "rate") => Len(InWindow(admitted, channelQuota)) <= channelQuota.rate

\* Both coordinators are ready and know each other, each with a share of 1 of
\* the concurrency 2, and 3 calls are active: 2 admitted by the first while it
\* was alone, 1 by the second.
C15_Witness ==
  /\ Has(channelQuota, "concurrency") /\ channelQuota.concurrency = 2
  /\ \A k \in {1, 2} : /\ rqm[k].ready
                       /\ DOMAIN rqm[k].pingsReceived = {1, 2}
                       /\ rqm[k].quota.concurrency = 1
  /\ rqm[1].activeCount = 2
  /\ rqm[2].activeCount = 1

\* Coordinator j is ready and still holds the record of the vanished k.
StillCounts(j, k) ==
  /\ rqm[k].at = "gone"
  /\ rqm[j].at = "done" /\ rqm[j].ready
  /\ k \in DOMAIN rqm[j].pingsReceived

\* C14 as stated.  A ready coordinator does not hold the record of a vanished
\* peer later than 3 x heartbeatInterval after the last ping it was given from
\* it: it has by then set its quota to the share of the coordinators left.
C14_ReclaimedWithinExpiryWindow ==
  \A j, k \in Peers :
    StillCounts(j, k) => rqm[j].pingsReceived[k] <= 3 * heartbeatInterval

\* C14, amended.  The record of a vanished peer is deleted by the first
\* heartbeat of the remaining coordinator at or after 3 x heartbeatInterval:
\* a ready coordinator holds it for less than 4 x heartbeatInterval after the
\* last ping from it, and the quota of a ready coordinator is the channelQuota
\* divided by the number of records it holds.
C14_ReclaimedAtNextHeartbeat ==
  \A j \in Peers :
    /\ \A k \in Peers : StillCounts(j, k) => rqm[j].pingsReceived[k] < 4 * heartbeatInterval
    /\ (rqm[j].at = "done" /\ DOMAIN rqm[j].pingsReceived # {}) =>
         LET n == Cardinality(DOMAIN rqm[j].pingsReceived) IN
         /\ rqm[j].quota.rate = channelQuota.rate \div n
         /\ Has(channelQuota, "concurrency") =>
              rqm[j].quota.concurrency = channelQuota.concurrency \div n

\* A coordinator vanished from a pool of 2; the other, whose own record is
\* fresh, has deleted the record of the vanished one and holds the whole
\* channelQuota again.
C14_Witness ==
  \E j, k \in Peers :
    /\ rqm[k].at = "gone"
    /\ rqm[j].at = "done" /\ rqm[j].ready
    /\ DOMAIN rqm[j].pingsReceived = {j}
    /\ rqm[j].pingsReceived[j] < heartbeatInterval
    /\ rqm[j].quota.rate = channelQuota.rate

\* C20.  After unregister() of a coordinator has completed, whenever it was
\* called, the coordinator's heartbeat timer is not running and its quota has
\* rate 0 and concurrency 0, in every later state.
C20_UnregisteredStaysStopped ==
  \A k \in Peers :
    rqm[k].un = "done" =>
      /\ ~rqm[k].heartbeatTimer.armed
      /\ rqm[k].quota.rate = 0
      /\ rqm[k].quota.concurrency = 0

\* unregister() of a coordinator completed during its discovery window; its
\* register() has since finished: the coordinator is ready with a share of the
\* channelQuota and its heartbeat timer is running.
C20_Witness ==
  \E k \in Peers :
    /\ rqm[k].un = "done"
    /\ rqm[k].at = "done" /\ rqm[k].ready
    /\ rqm[k].heartbeatTimer.armed
    /\ rqm[k].quota.rate >= 1 /\ rqm[k].quota.concurrency >= 1

----------------------------------------------------------------------------
\* The Dequeue.

\* The values of n nodes, from node i on along next.
RECURSIVE Forward(_, _, _)
Forward(d, i, n) ==
  IF n = 0 THEN <<>>
  ELSE IF i = null THEN <<null>>
  ELSE <<d.nodes[i].value>> \o Forward(d, d.nodes[i].next, n - 1)

\* The values of n nodes, from node i back along prev, front to back.
RECURSIVE Backward(_, _, _)
Backward(d, i, n) ==
  IF n = 0 THEN <<>>
  ELSE IF i = null THEN <<null>>
  ELSE Backward(d, d.nodes[i].prev, n - 1) \o <<d.nodes[i].value>>

\* C16.  On an empty Dequeue shift() and pop() return undefined, raise no
\* error and leave it empty with length 0, and peekFront() and peekBack()
\* return undefined.
C16_EmptyDequeueReturnsUndefined ==
  (returned.wasEmpty /\ returned.op \in {"shift", "pop", "peekFront", "peekBack"}) =>
    /\ returned.ret = undefined
    /\ dequeue._length = 0
    /\ dequeue.head = null /\ dequeue.tail = null

\* shift() was called on a Dequeue that had been filled and emptied again, and
\* raised a TypeError.
C16_Witness ==
  /\ returned.op = "shift" /\ returned.wasEmpty
  /\ returned.ret = TypeError
  /\ Len(dequeue.nodes) > 0

\* C17.  After any push, unshift, pop, shift and clear, pop and shift called on
\* a non-empty Dequeue only, the Dequeue agrees with the sequence given the
\* same operations: its length is the sequence's, its values from head along
\* next and from tail along prev are the sequence's, and every method
\* returned what it returns on the sequence.
C17_DequeueAgreesWithSequence ==
  /\ dequeue._length = Len(reference)
  /\ Forward(dequeue, dequeue.head, dequeue._length) = reference
  /\ Backward(dequeue, dequeue.tail, dequeue._length) = reference
  /\ (dequeue._length = 0) = (dequeue.head = null)
  /\ (dequeue._length = 0) = (dequeue.tail = null)
  /\ ~(returned.wasEmpty /\ returned.op \in {"pop", "shift"}) =>
       returned.ret = returned.expected

\* pop() has returned the back value of a Dequeue of 3; 2 values are left, in
\* the 4 nodes allocated, and the head node still has the prev link to a node
\* that shift() removed.
C17_Witness ==
  /\ returned.op = "pop" /\ returned.ret = Value(2)
  /\ reference = <<2, 1>>
  /\ Len(dequeue.nodes) = MaxNodes
  /\ dequeue.nodes[dequeue.head].prev # null

----------------------------------------------------------------------------
\* The QuotaManager constructor.

\* C18.  new QuotaManager(quota) throws the Invalid Quota error, and no manager
\* comes of it, exactly when one of interval and rate is a property of the
\* quota and the other is not; with both or neither it gives a manager whose
\* quota is the one given.
C18_ConstructorRejectsHalfRateQuota ==
  made.result # "none" =>
    LET q == IF made.arg.typeof = "object" THEN made.arg.quota ELSE NoFields IN
    IF Has(q, "interval") = Has(q, "rate")
      THEN made.result = "manager" /\ quota = q
      ELSE made.result = "Invalid Quota"

\* new QuotaManager({rate: 5, concurrency: 1}) has thrown.
C18_Witness ==
  /\ made.result = "Invalid Quota"
  /\ Has(made.arg.quota, "rate") /\ made.arg.quota.rate = 5
  /\ ~Has(made.arg.quota, "interval")
  /\ Has(made.arg.quota, "concurrency")

----------------------------------------------------------------------------
\* The quota without limits.

\* The quota has neither concurrency nor rate and interval.
NoLimit(q) == ~Has(q, "concurrency") /\ ~Has(q, "rate") /\ ~Has(q, "interval")

\* C19.  With a quota that has neither concurrency nor rate and interval,
\* start() returns true in every state, whatever activeCount is, and counts
\* the call; a limiter built on the manager invokes every call when it is
\* scheduled: no call is ever in the queue, has waited or has timed out.
C19_NoLimitAdmitsAlways ==
  NoLimit(quota) =>
    /\ start(Cur).ok
    /\ start(Cur).s.activeCount = activeCount + 1
    /\ Len(queue) = 0
    /\ ~timerId.armed
    /\ \A c \in Calls :
         Given(c) => call[c].invoked = 1 /\ call[c].waited = 0 /\ ~call[c].timedOut

\* Under a quota without limits every call given to the limiter is running at
\* the same time.
C19_Witness ==
  /\ NoLimit(quota)
  /\ activeCount = MaxCalls
  /\ \A c \in Calls : call[c].st = "running" /\ call[c].invoked = 1

----------------------------------------------------------------------------
\* Payloads that are not a peer id.

\* Coordinator k is given the message at the front of its connection, and the
\* message is malformed.
MalformedReceived(k) ==
  /\ Len(channel[k].inbox) > 0
  /\ Head(channel[k].inbox) \in Malformed
  /\ PoolBecomes(message(PoolCur, k))

\* C21.  A malformed message given to a coordinator (a payload that is not
\* JSON, or one that is not a peer id) is discarded: the coordinator's peer
\* set and its effective quota are left as they were, nothing is published
\* for it, and the nominal quota stays.
C21_MalformedMessageDiscarded ==
  [][\A k \in Peers :
       MalformedReceived(k) =>
         /\ rqm'[k] = rqm[k]
         /\ channelQuota' = channelQuota
         /\ \A j \in Peers \ {k} : channel'[j] = channel[j]]_vars

\* A ready coordinator that is alone in the pool counts a payload that is not
\* a peer id as a peer, and holds half of the nominal quota.
C21_Witness ==
  \E k \in Peers :
    /\ rqm[k].ready
    /\ Constructed = {k}
    /\ DOMAIN rqm[k].pingsReceived = {k, NotAnId}
    /\ rqm[k].quota.rate = channelQuota.rate \div 2

----------------------------------------------------------------------------
\* C22.  activeCount is never below 0, whatever sequence of start() and end()
\* is called, an end() without a matching successful start() included.
C22_ActiveCountNeverNegative == activeCount >= 0

\* end() was called on a manager on which no start() had been called.
C22_Witness ==
  /\ activeCount = -1
  /\ ~lastStart.called
  /\ history = <<>>

----------------------------------------------------------------------------
\* The sequence a is the end of the sequence b.
IsSuffix(a, b) ==
  /\ Len(a) <= Len(b)
  /\ a = SubSeq(b, Len(b) - Len(a) + 1, Len(b))

\* C23.  start() is all-or-nothing.  When it returns false, activeCount is
\* as before and no timestamp has been added to the history; a refusal by
\* concurrency leaves the history as it is, unpruned.  When it returns true,
\* activeCount has grown by exactly 1 and, with a rate quota, exactly one
\* timestamp, now, has been appended to what was left of the history (without
\* a rate quota the history is as before).
C23_StartAllOrNothing ==
  [][StartCall =>
       IF lastStart'.ok
         THEN /\ activeCount' = activeCount + 1
              /\ IF Has(quota, "interval") /\ Has(quota, "rate")
                    THEN /\ Len(history') >= 1
                         /\ history'[Len(history')] = 0
                         /\ IsSuffix(SubSeq(history', 1, Len(history') - 1), history)
                    ELSE history' = history
         ELSE /\ activeCount' = activeCount
              /\ IsSuffix(history', history)
              /\ (Has(quota, "concurrency") /\ activeCount >= quota.concurrency)
                    => history' = history]_vars

\* A start() was refused by concurrency while the front of the history had
\* left the window, and it is still there; the manager has a rate quota too.
C23_Witness ==
  /\ Has(quota, "concurrency") /\ Has(quota, "rate") /\ quota.rate >= 1
  /\ lastStart.called /\ ~lastStart.ok
  /\ lastStart.activeBefore >= quota.concurrency
  /\ activeCount = lastStart.activeBefore
  /\ lastStart.lengthBefore = Len(history)
  /\ Len(history) >= 1
  /\ history[1] > quota.interval

----------------------------------------------------------------------------
\* The admissions of the history that count at this moment: those whose
\* timestamp t satisfies t >= now - interval, that is whose age is <= interval.
Counted(h, interval) == SelectSeq(h, LAMBDA a : a <= interval)

\* C24.  An admission counts against the rate exactly while its age is at most
\* interval.  A start() that concurrency allows, on a manager with a rate quota,
\* leaves of the history the entries no older than interval, all of them and
\* no other; it returns true exactly when these are fewer than rate, and then
\* logs itself after them.  So a start() refused by the rate alone is admitted
\* once the oldest admission counted has become older than interval.
C24_CountedWhileInWindow ==
  [][(/\ StartCall
      /\ Has(quota, "interval") /\ Has(quota, "rate")
      /\ Has(quota, "concurrency") => activeCount < quota.concurrency)
       => LET kept == Counted(history, quota.interval) IN
          /\ lastStart'.ok = (Len(kept) < quota.rate)
          /\ history' = IF lastStart'.ok THEN Append(kept, 0) ELSE kept]_vars

\* The history held rate admissions, all of them older than interval, when
\* start() was called: it returned true and the history holds that call alone.
C24_Witness ==
  /\ Has(quota, "rate") /\ quota.rate = 2
  /\ lastStart.called /\ lastStart.ok
  /\ lastStart.lengthBefore = quota.rate
  /\ history = <<0>>

----------------------------------------------------------------------------
\* C25.  When the promise of an invoked function settles, by fulfilling or by
\* rejecting alike, end() is called once and a drain cycle is run right after:
\* activeCount goes down by 1 and up by 1 for each closure the drain takes from
\* the queue, the drain leaves the queue empty or start() refusing, and if the
\* freed slot admits the closure at the front of the queue, that closure is
\* taken and, unless its call has timed out, its function is invoked.
C25_SettleEndsOnceAndDrains ==
  [][\A c \in Calls :
       CompleteCall(c) =>
         /\ call'[c].fnOut.kind \in {"fulfilled", "rejected"}
         /\ activeCount' = activeCount - 1 + (Len(queue) - Len(queue'))
         /\ IsSuffix(queue', queue)
         /\ Len(queue') = 0 \/ ~start([Cur EXCEPT !.quota = quota',
                                                   !.activeCount = activeCount',
                                                   !.history = history']).ok
         /\ (Len(queue) > 0 /\ start(end(Cur)).ok) =>
              /\ Len(queue') < Len(queue)
              /\ call'[Head(queue)].st =
                   IF call[Head(queue)].timedOut THEN "skipped" ELSE "running"]_vars

\* Under concurrency 1 the first call was rejected by its function while the
\* second had been waiting in the queue, and the second is running.
C25_Witness ==
  /\ Has(quota, "concurrency") /\ quota.concurrency = 1
  /\ call[1].result = [kind |-> "rejected", of |-> 1]
  /\ call[2].st = "running"
  /\ call[2].waited > 0
  /\ activeCount = 1

----------------------------------------------------------------------------
\* C26.  Every step of the limiter but the passing of time ends with a drain
\* cycle, so the state after a drain cycle is every state: whenever the queue
\* is non-empty and activeCount is 0 a recheck timer is pending, due within
\* RecheckMs.  A timer is set for RecheckMs, and only when none is pending:
\* while one is pending and not yet due no step sets another, whatever is
\* scheduled or times out meanwhile.
C26_OneRecheckTimerPending ==
  /\ []((Len(queue) > 0 /\ activeCount = 0) =>
          (timerId.armed /\ timerId.left <= RecheckMs))
  /\ [][/\ (~timerId.armed /\ timerId'.armed) => timerId'.left = RecheckMs
        /\ (timerId.armed /\ timerId.left > 0 /\ timerId'.armed) =>
             timerId'.left <= timerId.left
        /\ (timerId.armed /\ timerId.left > 0 /\ timerId'.armed /\ ~Tick) =>
             timerId' = timerId
        /\ RecheckFire =>
             timerId' = IF Len(queue') > 0 /\ activeCount' = 0
                          THEN Timer(RecheckMs) ELSE NoTimer]_vars

\* Nothing is active, the recheck timer has been pending for a while, and in
\* the meantime one call in the queue has timed out and another was scheduled.
C26_Witness ==
  /\ activeCount = 0
  /\ timerId.armed /\ 0 < timerId.left /\ timerId.left < RecheckMs
  /\ Len(queue) >= 2
  /\ \E c, d \in Range(queue) : call[c].timedOut /\ call[d].waited = 0 /\ ~call[d].timedOut

----------------------------------------------------------------------------
\* C27.  A call whose maxDelay timer has fired is out of the queue from that
\* moment and uses no quota: every concurrency slot taken is that of a function
\* running, and every timestamp in the history is that of a function invoked.
C27_TimedOutCallUsesNoQuota ==
  /\ \A c \in Calls : call[c].timedOut => c \notin Range(queue)
  /\ activeCount <= Cardinality({c \in Calls : call[c].st = "running"})
  /\ Len(history) <= Cardinality({c \in Calls : call[c].invoked > 0})

\* Call 2 timed out in the queue behind call 1; when call 1 settled, the
\* start() made for the closure of call 2 took a slot and logged a timestamp,
\* and nothing is running.
C27_Witness ==
  /\ Has(quota, "rate") /\ Has(quota, "concurrency")
  /\ call[1].st = "done"
  /\ call[2].timedOut /\ call[2].st = "skipped" /\ call[2].invoked = 0
  /\ call[3].st = "idle"
  /\ activeCount = 1
  /\ history = <<0>>

----------------------------------------------------------------------------
\* The limiter under test.

Min(a, b) == IF a < b THEN a ELSE b

\* The jobs whose function has fulfilled.
Fulfilled == {c \in Jobs : call[c].st = "done"}

\* C28.  Under a quota of concurrency alone the limiter is work-conserving:
\* after every schedule and every completion the queue is empty or activeCount
\* equals concurrency.  Hence, with N calls of the same duration d given at
\* once under concurrency c, once everything due at a moment has happened
\* exactly min(N, k * c) calls have completed, k being the number of whole
\* durations d that have passed.
C28_WorkConserving ==
  (Has(quota, "concurrency") /\ ~Has(quota, "rate")) =>
    /\ Len(queue) = 0 \/ activeCount = quota.concurrency
    /\ MockQuiet =>
         Cardinality(Fulfilled) =
           Min(Cardinality(Jobs), (api.elapsed \div Ticks(api.waitTime)) * quota.concurrency)

\* Concurrency 2 and three calls of 200 ms: after 250 ms two have completed and
\* the third is running.
C28_Witness ==
  /\ quota = [concurrency |-> 2]
  /\ Cardinality(Jobs) = 3
  /\ api.waitTime = 200
  /\ api.elapsed = 250
  /\ Fulfilled = {1, 2}
  /\ call[3].st = "running"
  /\ api.startedAt[3] = 200

----------------------------------------------------------------------------
\* The test's case of a rate quota: five calls of 200 ms under {interval: 500, rate: 3}.
FiveUnderRate ==
  /\ quota = [interval |-> 500, rate |-> 3]
  /\ Cardinality(Jobs) = 5
  /\ api.waitTime = 200

\* C29.  Under a quota of rate and interval alone, a call that only the rate
\* holds back while nothing is active is started within one recheck period of
\* the moment the window frees a slot: when nothing is due, the queue is not
\* empty and nothing is active, fewer than one recheck period has passed since
\* the rate-th last admission left the window.  With five calls of 200 ms under
\* {interval: 500, rate: 3}: the first three are started at once, the fourth
\* and the fifth after 500 ms and no later than one recheck period after that,
\* and all five have completed by 1000 ms.
C29_RateBlockedStartsAtRecheck ==
  /\ (/\ Has(quota, "rate") /\ ~Has(quota, "concurrency")
      /\ MockQuiet /\ Len(queue) > 0 /\ activeCount = 0) =>
         Cardinality({i \in DOMAIN history :
                        history[i] < quota.interval + Ticks(RecheckMs)}) >= quota.rate
  /\ FiveUnderRate =>
       /\ \A c \in 1..3 : call[c].st # "idle" => api.startedAt[c] = 0
       /\ \A c \in 4..5 :
            /\ call[c].invoked > 0 =>
                 /\ api.startedAt[c] > quota.interval
                 /\ api.startedAt[c] <= quota.interval + Ticks(RecheckMs)
            /\ (MockQuiet /\ api.elapsed >= quota.interval + Ticks(RecheckMs)) =>
                 call[c].invoked > 0
       /\ (MockQuiet /\ api.elapsed >= 1000) => Fulfilled = Jobs

\* The test's case at 600 ms: three calls have completed, and the fourth and
\* the fifth have just been started, having waited in the queue since 0.
C29_Witness ==
  /\ FiveUnderRate
  /\ api.elapsed = 600
  /\ Fulfilled = {1, 2, 3}
  /\ activeCount = 2
  /\ \A c \in 4..5 : call[c].st = "running" /\ api.startedAt[c] = 600 /\ call[c].waited = 600

----------------------------------------------------------------------------
\* Pings received.

\* Coordinator k is given the message at the front of its connection, the ping
\* of coordinator u.
PingReceived(k, u) ==
  /\ Len(channel[k].inbox) > 0
  /\ Head(channel[k].inbox) = u
  /\ PoolBecomes(message(PoolCur, k))

\* The quota q is the channelQuota divided among n peers.
SharedAmong(q, n) ==
  /\ Has(channelQuota, "rate") => Has(q, "rate") /\ q.rate = channelQuota.rate \div n
  /\ Has(channelQuota, "interval") =>
       Has(q, "interval") /\ q.interval = channelQuota.interval
  /\ IF Has(channelQuota, "concurrency")
       THEN Has(q, "concurrency") /\ q.concurrency = channelQuota.concurrency \div n
       ELSE ~Has(q, "concurrency")

\* C30.  A ping from a sender that is not in the peer set adds a record for it,
\* just seen, and the coordinator, when ready, recomputes its quota: the
\* channelQuota divided among the peers it then knows (when not ready its quota
\* stays).  A ping from a sender in the peer set changes the time that sender
\* was last seen and nothing else of the coordinator: not the size of the peer
\* set, not the quota; and nothing is published for it.
C30_PingAddsOrRefreshes ==
  [][\A k, u \in Peers :
       PingReceived(k, u) =>
         LET known == rqm[k].pingsReceived
             now   == rqm'[k].pingsReceived
         IN  IF u \in DOMAIN known
               THEN /\ rqm'[k] = [rqm[k] EXCEPT !.pingsReceived[u] = 0]
                    /\ Cardinality(DOMAIN now) = Cardinality(DOMAIN known)
                    /\ \A j \in Peers \ {k} : channel'[j] = channel[j]
                    /\ channel'[k].inbox = Tail(channel[k].inbox)
               ELSE /\ u \in DOMAIN now /\ now[u] = 0
                    /\ DOMAIN now \subseteq DOMAIN known \cup {u}
                    /\ \A v \in DOMAIN now \ {u} : now[v] = known[v]
                    /\ IF rqm[k].ready
                         THEN SharedAmong(rqm'[k].quota, Cardinality(DOMAIN now))
                         ELSE rqm'[k].quota = rqm[k].quota /\ DOMAIN now = DOMAIN known \cup {u}
                    /\ rqm'[k].ready = rqm[k].ready]_vars

\* A ready coordinator that held the whole channelQuota has been given the
\* first ping of the other coordinator, and holds half of it.
C30_Witness ==
  \E k \in Peers :
    /\ rqm[k].ready /\ rqm[k].at = "done"
    /\ ~fastStart(channelQuota)
    /\ DOMAIN rqm[k].pingsReceived = Peers
    /\ \E u \in Peers \ {k} : rqm[k].pingsReceived[u] = 0 /\ rqm[u].at = "sleep"
    /\ Has(channelQuota, "rate") /\ rqm[k].quota.rate = channelQuota.rate \div 2
    /\ Has(channelQuota, "concurrency") /\ channelQuota.concurrency = 3
    /\ rqm[k].quota.concurrency = 1

----------------------------------------------------------------------------
\* Reply pings.

\* Coordinator k is given the message at the front of its connection and
\* publishes a ping in the same call of message() (it is subscribed, so the
\* ping comes to its own connection too).
Replied(k) ==
  /\ Len(channel[k].inbox) > 0
  /\ PoolBecomes(message(PoolCur, k))
  /\ channel'[k].inbox # Tail(channel[k].inbox)

\* C31.  A coordinator publishes a reply ping only for a ping from an id that
\* is not in its peer set, and never for a ping of its own.
C31_ReplyOnlyToNewPeer ==
  [][\A k \in Peers :
       Replied(k) =>
         /\ Head(channel[k].inbox) \notin DOMAIN rqm[k].pingsReceived
         /\ Head(channel[k].inbox) # k]_vars

\* A ready coordinator, alone in the pool, is about to be given its own ping
\* while its own id is not in its peer set.
C31_Witness ==
  \E k \in Peers :
    /\ Constructed = {k}
    /\ rqm[k].ready /\ rqm[k].at = "done"
    /\ ~fastStart(channelQuota)
    /\ k \notin DOMAIN rqm[k].pingsReceived
    /\ channel[k].inbox = <<k>>


\* C32.  A constructed coordinator has its own identifier in its own peer
\* set in every reachable state, so the peer count it divides by is at least 1.
C32_OwnIdInPeerSet ==
  \A k \in Constructed :
    /\ k \in DOMAIN rqm[k].pingsReceived
    /\ Cardinality(DOMAIN rqm[k].pingsReceived) >= 1

C32_Witness ==
  \E k \in Peers :
    /\ rqm[k].ready /\ rqm[k].at = "done"
    /\ heartbeatInterval = 1000
    /\ DOMAIN rqm[k].pingsReceived = {}


\* C33.  A quota recomputation that finds no peer record left after the
\* expiry sweep is skipped: a step that leaves a coordinator with an empty peer
\* set leaves its effective quota exactly as it was.
C33_EmptyPeerSetKeepsQuota ==
  [][\A k \in Constructed :
       DOMAIN rqm'[k].pingsReceived = {} => rqm'[k].quota = rqm[k].quota]_vars

C33_Witness ==
  \E k \in Peers :
    /\ rqm[k].ready /\ rqm[k].at = "done"
    /\ DOMAIN rqm[k].pingsReceived = {}
    /\ ~fastStart(channelQuota)
    /\ Has(channelQuota, "concurrency") /\ channelQuota.concurrency = 3
    /\ rqm[k].quota = [concurrency |-> 0] @@ channelQuota


\* Coordinator k becomes ready in this step.
BecomesReady(k) == ~rqm[k].ready /\ rqm'[k].ready

C35_QuotaStateUnderRecompute ==
  \A k \in Constructed :
    /\ Has(rqm[k].quota, "concurrency") =>
          rqm[k].activeCount <= rqm[k].quota.concurrency
    /\ Has(channelQuota, "rate") /\ Has(rqm[k].quota, "interval") =>
          Len(InWindow(rqm[k].history, rqm[k].quota)) <= rqm[k].quota.rate

\* The coordinator admitted two calls with the share of a pool of one; the
\* ping of a second coordinator has lowered its concurrency to 1 and both
\* calls are still running.
C35_Witness ==
  /\ rqm[limited].ready
  /\ DOMAIN rqm[limited].pingsReceived = Peers
  /\ Has(channelQuota, "concurrency") /\ channelQuota.concurrency = 3
  /\ rqm[limited].quota.concurrency = 1
  /\ rqm[limited].activeCount = 2
  /\ \A c \in 1..2 : call[c].st = "running"


\* Coordinator j deletes the record of u in this step.
Deletes(j, u) ==
  /\ u \in DOMAIN rqm[j].pingsReceived
  /\ u \notin DOMAIN rqm'[j].pingsReceived

\* C36 as stated.  A record is deleted only when its peer was last seen
\* longer ago than 3 x heartbeatInterval: a record last seen exactly that long
\* ago or later survives every step.
C36_DeletedOnlyPastWindow ==
  [][\A j, u \in Peers :
       Deletes(j, u) => rqm[j].pingsReceived[u] > 3 * heartbeatInterval]_vars

\* C36, amended.  A record is deleted only when its peer was last seen
\* 3 x heartbeatInterval ago or longer: a record last seen less than that ago
\* survives every step, and so does the record of a peer seen within the last
\* heartbeatInterval.
C36_DeletedOnlyAtWindow ==
  [][\A j, u \in Peers :
       /\ Deletes(j, u) => rqm[j].pingsReceived[u] >= 3 * heartbeatInterval
       /\ (u \in DOMAIN rqm[j].pingsReceived
             /\ rqm[j].pingsReceived[u] <= heartbeatInterval)
            => u \in DOMAIN rqm'[j].pingsReceived]_vars

\* A heartbeat of a ready coordinator has just swept its records and kept the
\* one of a vanished peer, last seen 2 x heartbeatInterval ago.
C36_Witness ==
  \E j, k \in Peers :
    /\ rqm[k].at = "gone"
    /\ rqm[j].at = "done" /\ rqm[j].ready
    /\ rqm[j].heartbeatTimer = Timer(heartbeatInterval)
    /\ k \in DOMAIN rqm[j].pingsReceived
    /\ rqm[j].pingsReceived[k] = 2 * heartbeatInterval


----------------------------------------------------------------------------
\* The JOIN, LEAVE and PING RedisQuotaManager in a pool whose coordinators are
\* constructed with channelQuotas of their own.  Each coordinator's
\* channelQuota is a field of its record here, and the value of a JOIN is the
\* record of id and quota that register() sends.  unregister() is not called.

JoinQuotas == {[interval |-> 500, rate |-> 4, concurrency |-> 2],
               [interval |-> 1000, rate |-> 30, concurrency |-> 6]}

\* A coordinator that has not been constructed.
NoJoinManager ==
  [at             |-> "none",   \* where register() is: none, subscribe, sleep, done
   channelQuota   |-> NoFields, \* channelQuota
   quota          |-> NoFields, \* _quota
   ready          |-> FALSE,    \* _ready
   clientPings    |-> <<>>,     \* uniqueId -> age of the last message received from it
   sleepLeft      |-> 0,        \* ms left of the setTimeout of 3000
   heartbeatTimer |-> NoTimer]

\* The constructor called with the channelQuota q, and register() up to its first await.
constructJQ(p, k, q) ==
  [p EXCEPT !.rqm[k] =
     [NoJoinManager EXCEPT !.at = "subscribe", !.channelQuota = q, !.quota = ZeroQuota,
                           !.clientPings = (k :> 0)]]

\* updateQuota(), dividing the coordinator's own channelQuota.
updateQuotaJQ(p, k) ==
  LET pings    == removeOutdatedClientPings(p.rqm[k].clientPings)
      size     == Cardinality(DOMAIN pings)
      newQuota == [rate |-> p.rqm[k].channelQuota.rate \div size,
                   concurrency |-> p.rqm[k].channelQuota.concurrency \div size]
                  @@ p.rqm[k].channelQuota
  IN  IF size = 0
        THEN [p EXCEPT !.rqm[k].clientPings = pings]
        ELSE [p EXCEPT !.rqm[k].clientPings = pings, !.rqm[k].quota = newQuota]

\* The subscribe of register() has completed: JOIN is sent with the
\* channelQuota the coordinator holds by now, and the 3000 ms begin.
subscribedJQ(p, k) ==
  [sendMessage(p, "JOIN", [id |-> k, quota |-> p.rqm[k].channelQuota]) EXCEPT
     !.rqm[k].at = "sleep", !.rqm[k].sleepLeft = DiscoveryMs]

\* The 3000 ms are over: the rest of register().
sleptJQ(p, k) ==
  [updateQuotaJQ(p, k) EXCEPT
     !.rqm[k].ready = TRUE,
     !.rqm[k].at = "done",
     !.rqm[k].heartbeatTimer = Timer(HEARTBEAT_INTERVAL)]

\* message(), called with the message at the front of the connection (no
\* LEAVE is sent in this pool).
messageJQ(p, k) ==
  LET command == Head(p.channel[k].inbox).command
      value   == Head(p.channel[k].inbox).value
      taken   == [p EXCEPT !.channel[k].inbox = Tail(@)]
  IN  CASE command = "JOIN" ->
             IF value.id # k
               THEN LET set == [taken EXCEPT !.rqm[k].clientPings = (value.id :> 0) @@ @,
                                             !.rqm[k].channelQuota = value.quota]
                        updated == IF set.rqm[k].ready THEN updateQuotaJQ(set, k) ELSE set
                    IN  sendMessage(updated, "PING", k)
               ELSE taken
        [] command = "PING" ->
             LET set == [taken EXCEPT !.rqm[k].clientPings = (value :> 0) @@ @] IN
             IF value \in DOMAIN p.rqm[k].clientPings \/ ~set.rqm[k].ready
               THEN set
               ELSE updateQuotaJQ(set, k)

\* heartbeat(), called by setInterval; housekeeping is getRandomInt(0, 5) === 0.
heartbeatJQ(p, k, housekeeping) ==
  LET pinged == [sendMessage(p, "PING", k) EXCEPT
                   !.rqm[k].heartbeatTimer = Timer(HEARTBEAT_INTERVAL)]
  IN  IF housekeeping THEN updateQuotaJQ(pinged, k) ELSE pinged

InitJoin ==
  /\ quota = NoFields
  /\ NothingCalled
  /\ Made
  /\ channelQuota = NoFields
  /\ heartbeatInterval = HEARTBEAT_INTERVAL
  /\ rqm = [k \in Peers |-> NoJoinManager]
  /\ channel = [k \in Peers |-> NoConnection]
  /\ peerPings = 0

\* new RedisQuotaManager(q, channelName, client)
ConstructJQ ==
  \E k \in Peers, q \in JoinQuotas :
    /\ rqm[k].at = "none"
    /\ \A j \in Peers : j < k => rqm[j].at # "none"
    /\ PoolBecomes(constructJQ(PoolCur, k, q))

SubscribeDoneJQ ==
  \E k \in Peers :
    /\ rqm[k].at = "subscribe"
    /\ channel[k].subscribed
    /\ PoolBecomes(subscribedJQ(PoolCur, k))

SleepDoneJQ ==
  \E k \in Peers :
    /\ rqm[k].at = "sleep"
    /\ rqm[k].sleepLeft = 0
    /\ PoolBecomes(sleptJQ(PoolCur, k))

MessageJQ ==
  \E k \in Peers :
    /\ Len(channel[k].inbox) > 0
    /\ PoolBecomes(messageJQ(PoolCur, k))

HeartbeatJQ ==
  \E k \in Peers :
    /\ Due(rqm[k].heartbeatTimer)
    /\ \E housekeeping \in BOOLEAN : PoolBecomes(heartbeatJQ(PoolCur, k, housekeeping))

\* LeaveTickMs milliseconds pass: every subscribe sent has been answered and
\* the messages published have been delivered.
JoinTick ==
  /\ \A k \in Peers : rqm[k].at # "subscribe"
  /\ LeaveTick

NextJoin ==
  ConstructJQ \/ Subscribe \/ SubscribeDoneJQ \/ SleepDoneJQ \/ MessageJQ \/ HeartbeatJQ \/ JoinTick

SpecJoin == InitJoin /\ [][NextJoin]_vars

\* Every coordinator of the pool has completed register() and has been given
\* every message published.
Quiesced ==
  /\ \A k \in Peers : rqm[k].at = "done" /\ channel[k].inbox = <<>>

\* C37.  Once every coordinator has completed register() and every message
\* has been delivered, all coordinators hold the same channelQuota and the same
\* quota, whatever channelQuotas they were constructed with and however their
\* joins overlapped.
C37_PoolAgreesOnNominalQuota ==
  Quiesced =>
    \A j, k \in Peers :
      /\ rqm[j].channelQuota = rqm[k].channelQuota
      /\ rqm[j].quota = rqm[k].quota

\* Two coordinators that joined at the same time hold each other's channelQuota.
C37_Witness ==
  /\ Quiesced
  /\ rqm[1].channelQuota = [interval |-> 1000, rate |-> 30, concurrency |-> 6]
  /\ rqm[2].channelQuota = [interval |-> 500, rate |-> 4, concurrency |-> 2]
  /\ rqm[1].quota.rate = 15
  /\ rqm[2].quota.rate = 2


----------------------------------------------------------------------------
\* The limiter given functions that may throw when called instead of
\* returning a promise, like mockApi(sleepTime, true).  T is the set of calls
\* whose function throws.  The exception leaves run() at fn(), before the
\* then / catch / then chain exists, and leaves next() out of its while loop.
\* It ends the executor when next() was called by the executor, which rejects
\* the promise of that executor; thrown out of a then callback or a timer
\* callback it goes to the host, which is taken to report it and carry on.

Thrown(c) == [kind |-> "thrown", of |-> c]

\* The while loop of next() up to the first function that throws: the state
\* it leaves, and the call whose function threw (0: none).
RECURSIVE drainT(_, _)
drainT(s, T) ==
  IF Len(s.queue) = 0
    THEN [s |-> s, by |-> 0]
    ELSE LET r == start(s) IN
         IF r.ok
           THEN LET c   == Head(s.queue)
                    ran == run([r.s EXCEPT !.queue = Tail(@)], c)
                IN  IF c \in T /\ ran.call[c].st = "running"
                      THEN [s  |-> [ran EXCEPT !.call[c].st = "thrown",
                                               !.call[c].fnOut = Thrown(c)],
                            by |-> c]
                      ELSE drainT(ran, T)
           ELSE [s |-> r.s, by |-> 0]

\* next(): nothing after the while loop is done when a function threw.
nextT(s, T) ==
  LET d == drainT(s, T) IN
  IF d.by = 0 THEN [s |-> next(s), by |-> 0] ELSE d

\* The function pRateLimit returns, called with fn: an exception out of
\* next() rejects the promise being constructed.
scheduleT(s, c, T) ==
  LET n == nextT([s EXCEPT !.call[c].st = "queued",
                           !.call[c].timer = IF maxDelay(s.quota) # 0 THEN "armed" ELSE "null",
                           !.call[c].left = maxDelay(s.quota),
                           !.queue = Append(@, c)], T)
  IN  IF n.by = 0
        THEN n.s
        ELSE [n.s EXCEPT !.call[c].settles = @ + 1,
                         !.call[c].result = Settle(@, [kind |-> "rejected", of |-> n.by])]

\* The callback of the maxDelay timer.
maxDelayFiredT(s, c, T) ==
  nextT([s EXCEPT !.call[c].timer = "null",
                  !.call[c].timedOut = TRUE,
                  !.call[c].settles = @ + 1,
                  !.call[c].result = Settle(@, TimeoutError)], T).s

\* fn's promise settles with outcome o: the then / catch / then chain of run().
settledT(s, c, o, T) ==
  nextT(end([s EXCEPT !.call[c].st = "done",
                      !.call[c].fnOut = o,
                      !.call[c].settles = @ + 1,
                      !.call[c].result = Settle(@, o)]), T).s

\* The callback of the recheck timer.
recheckFiredT(s, T) == nextT([s EXCEPT !.timerId = NoTimer], T).s

ThrowSchedule ==
  /\ \E c \in Calls, T \in SUBSET Calls :
       /\ call[c].st = "idle"
       /\ \A b \in Calls : b < c => call[b].st # "idle"
       /\ Becomes(scheduleT(Cur, c, T))
  /\ UNCHANGED <<outstanding, lastStart, poolVars, dequeueVars, made, api>>

ThrowMaxDelayFire ==
  /\ \E c \in Calls, T \in SUBSET Calls :
       /\ call[c].timer = "armed"
       /\ call[c].left = 0
       /\ Becomes(maxDelayFiredT(Cur, c, T))
  /\ UNCHANGED <<outstanding, lastStart, poolVars, dequeueVars, made, api>>

ThrowComplete ==
  /\ \E c \in Calls, T \in SUBSET Calls :
       /\ call[c].st = "running"
       /\ \E kind \in {"fulfilled", "rejected"} :
            Becomes(settledT(Cur, c, [kind |-> kind, of |-> c], T))
  /\ UNCHANGED <<outstanding, lastStart, poolVars, dequeueVars, made, api>>

ThrowRecheckFire ==
  /\ Due(timerId)
  /\ \E T \in SUBSET Calls : Becomes(recheckFiredT(Cur, T))
  /\ UNCHANGED <<outstanding, lastStart, poolVars, dequeueVars, made, api>>

NextThrow == ThrowSchedule \/ ThrowMaxDelayFire \/ ThrowComplete \/ ThrowRecheckFire \/ Tick

SpecThrow == Init /\ [][NextThrow]_vars

Running == {b \in Calls : call[b].st = "running"}

\* C38.  A call whose function threw when called has its promise rejected
\* with the error thrown and holds no slot: while no call has timed out,
\* activeCount is the number of running functions, and a queue that is not
\* empty has a running function or the recheck timer to drain it.
C38_SyncThrowHandledLikeRejection ==
  (\A b \in Calls : ~call[b].timedOut) =>
    /\ \A c \in Calls :
         call[c].st = "thrown" => call[c].result = [kind |-> "rejected", of |-> c]
    /\ activeCount = Cardinality(Running)
    /\ Len(queue) > 0 => Running # {} \/ timerId.armed

\* Under {concurrency: 1}: the function of call 1 threw in its own executor
\* and its promise is rejected; nothing runs, the slot is still taken and
\* call 2 waits in the queue with no timer set.
C38_Witness ==
  /\ quota = [concurrency |-> 1]
  /\ call[1].st = "thrown"
  /\ call[1].result = [kind |-> "rejected", of |-> 1]
  /\ call[1].invoked = 1
  /\ Running = {}
  /\ activeCount = 1
  /\ queue = <<2>>
  /\ ~timerId.armed


----------------------------------------------------------------------------
\* The pool on channelQuotas with fewer units than it has coordinators: a
\* rate of 1 or a concurrency of 1 for up to MaxPeers coordinators.

ScarceQuotas == {[interval |-> 500, rate |-> 1, concurrency |-> 3],
                 [interval |-> 500, rate |-> 5, concurrency |-> 1]}

InitScarce ==
  /\ quota = NoFields
  /\ NothingCalled
  /\ Made
  /\ channelQuota \in ScarceQuotas
  /\ heartbeatInterval = 2000
  /\ NoPool

SpecScarce == InitScarce /\ [][NextPool]_vars

\* The coordinators of the pool hold the same peer set: each knows all of them.
SamePeerSet == \A k \in Constructed : DOMAIN rqm[k].pingsReceived = Constructed

\* start() of a coordinator with this quota can return true.
CanAdmit(q) == q.rate >= 1 /\ q.concurrency >= 1

\* C39.  In a pool that has converged on one peer set, whose channelQuota has
\* rate >= 1 and concurrency >= 1, at least one coordinator holds a quota with
\* rate >= 1 and concurrency >= 1.
C39_SomeCoordinatorCanRun ==
  (Converged /\ SamePeerSet) => \E k \in Constructed : CanAdmit(rqm[k].quota)

\* Two coordinators share {rate: 5, concurrency: 1}: each holds rate 2 and
\* concurrency 0.
C39_Witness ==
  /\ Converged /\ SamePeerSet
  /\ Constructed = Peers
  /\ channelQuota.concurrency = 1
  /\ \A k \in Peers : rqm[k].quota.rate = 2 /\ rqm[k].quota.concurrency = 0


----------------------------------------------------------------------------
\* The places of call c in the queue.
InQueue(c) == {i \in DOMAIN queue : queue[i] = c}

\* The call waits: its function has not been called, its promise is pending
\* and its closure is in the queue, once.
IsQueued(c) ==
  /\ call[c].invoked = 0 /\ call[c].result = Pending
  /\ Cardinality(InQueue(c)) = 1 /\ call[c].st = "queued"

\* The call runs: its function has been called once, its promise is pending
\* and its closure is not in the queue.
IsRunning(c) ==
  /\ call[c].invoked = 1 /\ call[c].result = Pending
  /\ InQueue(c) = {} /\ call[c].st = "running"

\* The call is settled: with what its function's promise settled with, the
\* function called once, or with the timeout error, the function never called.
IsSettled(c) ==
  /\ call[c].result # Pending
  /\ \/ call[c].invoked = 1 /\ call[c].result = call[c].fnOut /\ InQueue(c) = {}
     \/ call[c].invoked = 0 /\ call[c].result = TimeoutError /\ Cardinality(InQueue(c)) <= 1

\* C40.  A call given to the limiter is queued, running or settled, and one
\* of them only; its function is called once at most; and it leaves the queue
\* only by being started, its promise pending, or after its promise has been
\* rejected with the timeout error, its function left uncalled.
C40_NoCallLost ==
  /\ [](\A c \in Calls :
          call[c].st # "idle" =>
            /\ call[c].invoked <= 1
            /\ IsQueued(c) \/ IsRunning(c) \/ IsSettled(c)
            /\ ~(IsQueued(c) /\ IsRunning(c))
            /\ ~(IsQueued(c) /\ IsSettled(c))
            /\ ~(IsRunning(c) /\ IsSettled(c)))
  /\ [][\A c \in Calls :
          (InQueue(c) # {} /\ c \notin Range(queue')) =>
            \/ /\ call[c].result = Pending /\ call'[c].result = Pending
               /\ call'[c].invoked = 1
               /\ call'[c].st = "running"
            \/ /\ call'[c].result = TimeoutError
               /\ call'[c].invoked = 0
               /\ call'[c].st = "skipped"]_vars

\* One call is running, one has settled with what its function's promise
\* settled with, and one has left the queue rejected with the timeout error,
\* its function never called.
C40_Witness ==
  \E a, b, c \in Calls :
    /\ IsRunning(a)
    /\ IsSettled(b) /\ call[b].invoked = 1
    /\ IsSettled(c) /\ call[c].invoked = 0 /\ InQueue(c) = {} /\ call[c].st = "skipped"

====
